---------------------------- MODULE Spec2Model ----------------------------
(***************************************************************************)
(* State-machine models of the concurrent programs of the repository:      *)
(*   - 12_i2c_realistic.cpp  (I2C master / slave over a shared bus)        *)
(*   - 11_spi_realistic.cpp  (SPI master / slave with echo)                *)
(*   - 14_rtos_advanced.cpp  (sensor / process / uart pipeline)            *)
(* Each program has its own variables and its own specification; the       *)
(* variables of the other programs stay at their initial values.           *)
(*                                                                         *)
(* Timing.  The bus masters hold every line level for 50 ms                *)
(* (sleep_for(50)), the slaves poll every 1 ms.  A master's 50 ms sleep    *)
(* is therefore modelled as ending only once the slave can do nothing      *)
(* more (it polls in vain, waits for the bus lock, or has returned).       *)
(* Wherever the master does NOT sleep between two steps, the slave may or  *)
(* may not get to run in between: both orders are explored.                *)
(***************************************************************************)
EXTENDS Integers, Sequences, FiniteSets

(***************************************************************************)
(* Bit helpers for the uint8_t arithmetic of the sources.                  *)
(***************************************************************************)
\* (v >> i) & 1
Bit(v, i) == (v \div (2 ^ i)) % 2

\* v |= (b << i), kept in 8 bits
OrBit(v, i, b) == (IF b = 1 /\ Bit(v, i) = 0 THEN v + 2 ^ i ELSE v) % 256

\* bool -> 0/1, as in (I2C.SDA & 1)
B2N(b) == IF b THEN 1 ELSE 0

(***************************************************************************)
(* Bounds of the model.                                                    *)
(***************************************************************************)
\* I2C addresses tried: slave_address, slave_address + 1, ...
AddrSpan == 2
\* data bytes tried (I2C and SPI): the program's byte and DataSpan others
DataSpan == 1
\* how many times the model follows a pop() of an empty queue
MaxUnderflow == 2
\* values a read of an empty queue's front() may yield: 0..MaxGarbage
MaxGarbage == 0

\* main()'s values in 12_i2c_realistic.cpp
SlaveAddress == 80
DataToSend == 165
\* main()'s value in 11_spi_realistic.cpp (0b10101100)
SpiDataToSend == 172
\* 14_rtos_advanced.cpp: Semaphore pipeline_slots(2), while (sensor_value < 5)
SlotCapacity == 2
Readings == 5

\* characters tried by the UART validation test: 'A', 'A' + 1, ...
CharSpan == 15
\* LED numbers tried: -LedSpan .. 7 + LedSpan
LedSpan == 3

\* 13_firmware_validation.cpp: the test's character 'A'
TestChar == 65
\* 10_uart_simulation.cpp: main sends 'H', 'i', '!'
UartMessage == <<72, 105, 33>>
\* 08_interrupts_isrs.cpp, in units of 100 ms: mainLoop runs 10 rounds of
\* 200 ms, the button is pressed after 500 ms, the timer fires 3 times every
\* 300 ms
Isr08Rounds == 10
Isr08LoopSleep == 2
Isr08ButtonDelay == 5
Isr08TimerEvents == 3
Isr08TimerSleep == 3
\* 09_timers_rtos.cpp, in units of 100 ms: mainRTOSLoop runs 10 rounds of
\* 200 ms, the timer fires 3 times every 600 ms, ledTask runs 5 rounds of
\* 500 ms, uartTask 3 rounds of 700 ms
Isr09Rounds == 10
Isr09LoopSleep == 2
Isr09TimerEvents == 3
Isr09TimerSleep == 6
Isr09LedRounds == 5
Isr09LedSleep == 5
Isr09UartRounds == 3
Isr09UartSleep == 7

\* firmware strings tried in 17_bootloader_sim.cpp: "VALID_FW", its proper
\* prefixes, "CORRUPT_FW", and "VALID_FW" with one character replaced by, or
\* followed by, one of the FwSpan + 1 characters 'X', 'Y', ...
FwSpan == 1

\* demo_debounce_button() in 03_control_flow_and_loops.cpp
STABLE_REQUIRED == 3
\* the values the background thread writes to the pin
BounceSeq == <<1, 0, 1>>
\* "VALID_FW" and "CORRUPT_FW" as character codes
VALID_FW == <<86, 65, 76, 73, 68, 95, 70, 87>>
CORRUPT_FW == <<67, 79, 82, 82, 85, 80, 84, 95, 70, 87>>
\* loadFirmware: for (int i = 0; i < 3; i++)
LoadRounds == 3

Addresses == {(SlaveAddress + k) % 256 : k \in 0..AddrSpan}
ValChars == {TestChar + k : k \in 0..CharSpan}
LedNums == (0 - LedSpan)..(7 + LedSpan)
DataBytes == {(DataToSend + 77 * k) % 256 : k \in 0..DataSpan}
SpiBytes == {(SpiDataToSend + 77 * k) % 256 : k \in 0..DataSpan}
GarbageValues == 0..MaxGarbage

VARIABLES
  \* ---- 12_i2c_realistic.cpp
  SDA, SCL, busLock,          \* struct I2CBus; busLock holds its owner
  pcM, mi, address, data,     \* I2CMaster_Write: position, loop index, arguments
  pcS, si, sAddress,          \* I2CSlave: position, loop index, argument
  received_address, received_data,
  addrReply,                  \* what the slave answered the address phase with
  \* ---- 11_spi_realistic.cpp
  MOSI, MISO, CS, SCLK, spiLock,   \* struct SPIBus; spiLock holds its owner
  pcSM, smi, data_out,        \* SPIMaster: position, loop index, argument
  received_byte,              \* SPIMaster's local received_byte
  pcSS, ssi,                  \* SPISlave: position, loop index
  received_by_slave,          \* main's variable SPISlave writes through
  \* ---- 14_rtos_advanced.cpp
  dataQueue,                  \* pipelineQueue: the items it holds, oldest first
  qUnderflow,                 \* pops of the empty queue not yet made up by pushes
  headRead,                   \* the oldest item has been returned by a front()
  count, mtx,                 \* Semaphore pipeline_slots: count, owner of mtx
  sensor_mutex, uart_mutex,   \* owners of the two global mutexes
  pcSen, sensor_value,        \* task_sensor_read
  pcProc, valP, processed,    \* task_data_process and its locals
  pcUart, valU,               \* task_uart_send and its local val
  pcMain,                     \* main of 14_rtos_advanced.cpp
  uartOut,                    \* the values [UART] printed, in order
  pushed,                     \* values pushed, in order
  nTaken,                     \* number of front() calls so far
  inOrder,                    \* the k-th front() returned the k-th value pushed
  takenTwice,                 \* some item has been returned by two front() calls
  lost,                       \* values removed (or overwritten) unread
  waitsDone, signalsDone      \* completed Semaphore::wait / signal calls

VARIABLES
  \* ---- 13_firmware_validation.cpp
  vTxBuffer, vTxReady,        \* struct UART UART1
  vData,                      \* the argument of UART_SendChar
  pcV,                        \* position in main / test_UART_SendChar
  \* ---- 10_uart_simulation.cpp
  uTxBuffer, uRxBuffer,       \* struct UART_Registers UART: the two FIFOs
  uSent,                      \* bookkeeping: the characters passed to UART_SendChar
  uGot,                       \* bookkeeping: the non-zero results of UART_ReadChar
  uTxReady, uRxReady,         \* and the two flags
  uartLock,                   \* owner of UART.uartLock
  pcUM, uIdx,                 \* main: position, number of the current call
  uRet,                       \* what the last UART_ReadChar returned
  pcW, wData,                 \* UART_TransferWire: position, local data
  \* ---- 08_interrupts_isrs.cpp and 09_timers_rtos.cpp
  isrProg,                    \* which of the two programs runs: "08" or "09"
  now,                        \* time in units of 100 ms
  timerFlag,                  \* timerElapsed (08) / timerFlag (09)
  buttonPressed,              \* 08 only
  pcLoop, loopCounter, loopWake,    \* mainLoop / mainRTOSLoop
  timerI, timerWake,          \* simulateTimerInterrupt / simulateHardwareTimer
  pcBtn,                      \* simulateButtonPress (08)
  ledI, ledWake,              \* ledTask (09)
  utI, utWake,                \* uartTask (09)
  pcIsrMain,                  \* main
  isrRaised, isrHandled,      \* timer events raised by the ISR / handled
  \* ---- 04_functions_and_modular_design.cpp
  LED_REG,                    \* the 8-bit LED register
  pcLed,                      \* position: in main, in setLED, in toggleLED
  led_num, ledState,          \* arguments of the call in progress
  ledBefore                   \* LED_REG when the call in progress was made

VARIABLES
  \* ---- 03_control_flow_and_loops.cpp, demo_debounce_button
  simulated_button_pin,       \* the global the background thread writes
  pcDeb,                      \* position in demo_debounce_button
  stable_count, prev, cur,    \* its locals
  pcBounce,                   \* background thread: number of writes done
  lastSamples,                \* bookkeeping: the last STABLE_REQUIRED values of cur
  debounced,                  \* the value printed as "Debounced value"
  \* ---- 17_bootloader_sim.cpp
  firmware,                   \* main's string
  pcBoot,                     \* position in main
  loadI,                      \* loadFirmware's i
  bootLog                     \* bookkeeping: what has been executed, in order

i2cVars == <<SDA, SCL, busLock, pcM, mi, address, data, pcS, si, sAddress,
             received_address, received_data, addrReply>>

spiVars == <<MOSI, MISO, CS, SCLK, spiLock, pcSM, smi, data_out, received_byte,
             pcSS, ssi, received_by_slave>>

pipeVars == <<dataQueue, qUnderflow, headRead, count, mtx, sensor_mutex,
              uart_mutex, pcSen, sensor_value, pcProc, valP, processed,
              pcUart, valU, pcMain, uartOut, pushed, nTaken, inOrder, takenTwice, lost,
              waitsDone, signalsDone>>

valVars == <<vTxBuffer, vTxReady, vData, pcV>>

uartVars == <<uTxBuffer, uRxBuffer, uTxReady, uRxReady, uartLock, pcUM, uIdx,
              uRet, pcW, wData, uSent, uGot>>

isrVars == <<isrProg, now, timerFlag, buttonPressed, pcLoop, loopCounter,
             loopWake, timerI, timerWake, pcBtn, ledI, ledWake, utI, utWake,
             pcIsrMain, isrRaised, isrHandled>>

ledVars == <<LED_REG, pcLed, led_num, ledState, ledBefore>>

debVars == <<simulated_button_pin, pcDeb, stable_count, prev, cur, pcBounce,
             lastSamples, debounced>>

bootVars == <<firmware, pcBoot, loadI, bootLog>>

busVars == <<i2cVars, spiVars, pipeVars>>

vars == <<i2cVars, spiVars, pipeVars, valVars, uartVars, isrVars, ledVars,
          debVars, bootVars>>

nonI2C == <<spiVars, pipeVars, valVars, uartVars, isrVars, ledVars,
            debVars, bootVars>>

nonSPI == <<i2cVars, pipeVars, valVars, uartVars, isrVars, ledVars,
            debVars, bootVars>>

nonPipe == <<i2cVars, spiVars, valVars, uartVars, isrVars, ledVars,
             debVars, bootVars>>

nonVal == <<busVars, uartVars, isrVars, ledVars,
            debVars, bootVars>>

nonUart == <<busVars, valVars, isrVars, ledVars,
             debVars, bootVars>>

nonIsr == <<busVars, valVars, uartVars, ledVars,
            debVars, bootVars>>

nonLed == <<busVars, valVars, uartVars, isrVars,
            debVars, bootVars>>

nonDeb == <<busVars, valVars, uartVars, isrVars, ledVars, bootVars>>

nonBoot == <<busVars, valVars, uartVars, isrVars, ledVars, debVars>>

(***************************************************************************)
(* 12_i2c_realistic.cpp                                                    *)
(***************************************************************************)
\* The state main() starts the two threads in; with run = FALSE the program
\* is not running (the specification is another program's).
I2CStart(run) ==
  /\ SDA = TRUE /\ SCL = TRUE /\ busLock = "none"
  /\ pcM = (IF run THEN "main_sleep" ELSE "off") /\ mi = 7
  /\ address \in (IF run THEN Addresses ELSE {0})
  /\ data \in (IF run THEN DataBytes ELSE {0})
  /\ pcS = (IF run THEN "init" ELSE "off") /\ si = 7
  /\ sAddress \in (IF run THEN Addresses ELSE {0})
  /\ received_address = 0
  /\ received_data = 0
  /\ addrReply = "none"

\* The slave cannot go on by itself: it polls a line that is not at the level
\* it waits for, waits for busLock, or has returned.
SlaveWaiting ==
  \/ pcS = "wait_start" /\ (SDA \/ ~SCL)
  \/ pcS \in {"addr_wait_high", "data_wait_high"} /\ ~SCL
  \/ pcS \in {"addr_wait_low", "data_wait_low"} /\ SCL
  \/ pcS \in {"addr_lock", "ack_lock", "nack_lock", "data_lock", "ack2_lock"}
       /\ busLock # "none"
  \/ pcS = "wait_stop" /\ (~SDA \/ ~SCL)
  \/ pcS = "done"

\* ---- I2CSlave -------------------------------------------------------------
\* received_data = 0;
SInit ==
  /\ pcS = "init"
  /\ received_data' = 0
  /\ pcS' = "wait_start"
  /\ UNCHANGED nonI2C
  /\ UNCHANGED <<SDA, SCL, busLock, pcM, mi, address, data, si, sAddress,
                 received_address, addrReply>>

\* while (I2C.SDA || !I2C.SCL) sleep(1);   SDA is read first, then SCL
SWaitStartSDA ==
  /\ pcS = "wait_start"
  /\ ~SDA
  /\ pcS' = "wait_start_scl"
  /\ UNCHANGED nonI2C
  /\ UNCHANGED <<SDA, SCL, busLock, pcM, mi, address, data, si, sAddress,
                 received_address, received_data, addrReply>>

SWaitStartSCL ==
  /\ pcS = "wait_start_scl"
  /\ IF SCL
       THEN /\ pcS' = "addr_wait_high"
            /\ received_address' = 0
            /\ si' = 7
       ELSE /\ pcS' = "wait_start"
            /\ UNCHANGED <<received_address, si>>
  /\ UNCHANGED nonI2C
  /\ UNCHANGED <<SDA, SCL, busLock, pcM, mi, address, data, sAddress,
                 received_data, addrReply>>

\* while (!I2C.SCL) sleep(1);   in either loop
SWaitHigh ==
  /\ pcS \in {"addr_wait_high", "data_wait_high"}
  /\ SCL
  /\ pcS' = (IF pcS = "addr_wait_high" THEN "addr_lock" ELSE "data_lock")
  /\ UNCHANGED nonI2C
  /\ UNCHANGED <<SDA, SCL, busLock, pcM, mi, address, data, si, sAddress,
                 received_address, received_data, addrReply>>

\* lock_guard<mutex> lock(I2C.busLock);   in the sampling blocks
SSampleLock ==
  /\ pcS \in {"addr_lock", "data_lock"}
  /\ busLock = "none"
  /\ busLock' = "slave"
  /\ pcS' = (IF pcS = "addr_lock" THEN "addr_sample" ELSE "data_sample")
  /\ UNCHANGED nonI2C
  /\ UNCHANGED <<SDA, SCL, pcM, mi, address, data, si, sAddress,
                 received_address, received_data, addrReply>>

\* a slave that stores the address samples one position lower (bits 6..0)
SlaveAddrBitShifted(ra, sda, i) == OrBit(ra, i - 1, B2N(sda))

\* received_address |= ((I2C.SDA & 1) << i);
SlaveAddrBit(ra, sda, i) == OrBit(ra, i, B2N(sda))

SAddrSample ==
  /\ pcS = "addr_sample"
  /\ received_address' = SlaveAddrBit(received_address, SDA, si)
  /\ pcS' = "addr_unlock"
  /\ UNCHANGED nonI2C
  /\ UNCHANGED <<SDA, SCL, busLock, pcM, mi, address, data, si, sAddress,
                 received_data, addrReply>>

\* a slave that stores the data bits least significant bit first
SlaveDataBitLsbFirst(rd, sda, i) == OrBit(rd, 7 - i, B2N(sda))

\* received_data |= ((I2C.SDA & 1) << i);
SlaveDataBit(rd, sda, i) == OrBit(rd, i, B2N(sda))

SDataSample ==
  /\ pcS = "data_sample"
  /\ received_data' = SlaveDataBit(received_data, SDA, si)
  /\ pcS' = "data_unlock"
  /\ UNCHANGED nonI2C
  /\ UNCHANGED <<SDA, SCL, busLock, pcM, mi, address, data, si, sAddress,
                 received_address, addrReply>>

\* end of the sampling block: the lock_guard is released
SSampleUnlock ==
  /\ pcS \in {"addr_unlock", "data_unlock"}
  /\ busLock' = "none"
  /\ pcS' = (IF pcS = "addr_unlock" THEN "addr_wait_low" ELSE "data_wait_low")
  /\ UNCHANGED nonI2C
  /\ UNCHANGED <<SDA, SCL, pcM, mi, address, data, si, sAddress,
                 received_address, received_data, addrReply>>

\* while (I2C.SCL) sleep(1);  then i--, loop test (i >= 1)
SAddrWaitLow ==
  /\ pcS = "addr_wait_low"
  /\ ~SCL
  /\ IF si > 1
       THEN si' = si - 1 /\ pcS' = "addr_wait_high"
       ELSE si' = si /\ pcS' = "decide"
  /\ UNCHANGED nonI2C
  /\ UNCHANGED <<SDA, SCL, busLock, pcM, mi, address, data, sAddress,
                 received_address, received_data, addrReply>>

\* if (received_address == address)
AddressMatches(ra, a) == ra = a

SDecide ==
  /\ pcS = "decide"
  /\ pcS' = (IF AddressMatches(received_address, sAddress)
               THEN "ack_lock" ELSE "nack_lock")
  /\ UNCHANGED nonI2C
  /\ UNCHANGED <<SDA, SCL, busLock, pcM, mi, address, data, si, sAddress,
                 received_address, received_data, addrReply>>

\* lock_guard<mutex> lock(I2C.busLock);   in the ACK / NACK branches and for
\* the final ACK
SReplyLock ==
  /\ pcS \in {"ack_lock", "nack_lock", "ack2_lock"}
  /\ busLock = "none"
  /\ busLock' = "slave"
  /\ pcS' = (CASE pcS = "ack_lock" -> "ack_sda"
               [] pcS = "nack_lock" -> "nack_sda"
               [] OTHER -> "ack2_sda")
  /\ UNCHANGED nonI2C
  /\ UNCHANGED <<SDA, SCL, pcM, mi, address, data, si, sAddress,
                 received_address, received_data, addrReply>>

\* I2C.SDA = false; // ACK      then the block ends
SAck ==
  /\ pcS = "ack_sda"
  /\ SDA' = FALSE
  /\ addrReply' = "ack"
  /\ pcS' = "ack_unlock"
  /\ UNCHANGED nonI2C
  /\ UNCHANGED <<SCL, busLock, pcM, mi, address, data, si, sAddress,
                 received_address, received_data>>

SAckUnlock ==
  /\ pcS = "ack_unlock"
  /\ busLock' = "none"
  /\ si' = 7
  /\ pcS' = "data_wait_high"
  /\ UNCHANGED nonI2C
  /\ UNCHANGED <<SDA, SCL, pcM, mi, address, data, sAddress,
                 received_address, received_data, addrReply>>

\* I2C.SDA = true; // NACK     then return (the lock_guard is released)
SNack ==
  /\ pcS = "nack_sda"
  /\ SDA' = TRUE
  /\ addrReply' = "nack"
  /\ pcS' = "nack_return"
  /\ UNCHANGED nonI2C
  /\ UNCHANGED <<SCL, busLock, pcM, mi, address, data, si, sAddress,
                 received_address, received_data>>

\* a slave that waits for the STOP condition after its NACK
SNackThenWaitStop ==
  /\ pcS = "nack_return"
  /\ pcS' = "wait_stop"
  /\ UNCHANGED nonI2C
  /\ UNCHANGED <<SDA, SCL, busLock, pcM, mi, address, data, si, sAddress,
                 received_address, received_data, addrReply>>

\* return;  on the NACK path: the lock_guard is released
SNackReturn ==
  /\ pcS = "nack_return"
  /\ busLock' = "none"
  /\ pcS' = "done"
  /\ UNCHANGED nonI2C
  /\ UNCHANGED <<SDA, SCL, pcM, mi, address, data, si, sAddress,
                 received_address, received_data, addrReply>>

\* while (I2C.SCL) sleep(1);  then i--, loop test (i >= 0)
SDataWaitLow ==
  /\ pcS = "data_wait_low"
  /\ ~SCL
  /\ IF si > 0
       THEN si' = si - 1 /\ pcS' = "data_wait_high"
       ELSE si' = si /\ pcS' = "ack2_lock"
  /\ UNCHANGED nonI2C
  /\ UNCHANGED <<SDA, SCL, busLock, pcM, mi, address, data, sAddress,
                 received_address, received_data, addrReply>>

\* I2C.SDA = false; // ACK after data; this lock_guard lives to the end of
\* the function
SAck2 ==
  /\ pcS = "ack2_sda"
  /\ SDA' = FALSE
  /\ pcS' = "wait_stop"
  /\ UNCHANGED nonI2C
  /\ UNCHANGED <<SCL, busLock, pcM, mi, address, data, si, sAddress,
                 received_address, received_data, addrReply>>

\* while (!I2C.SDA || !I2C.SCL) sleep(1);  then return.  One evaluation of
\* the loop test: the slave returns, or sleeps 1 ms and tests again.
SWaitStop ==
  /\ pcS = "wait_stop"
  /\ IF SDA /\ SCL
       THEN busLock' = "none" /\ pcS' = "done"
       ELSE UNCHANGED <<busLock, pcS>>
  /\ UNCHANGED nonI2C
  /\ UNCHANGED <<SDA, SCL, pcM, mi, address, data, si, sAddress,
                 received_address, received_data, addrReply>>

I2CSlave ==
  \/ SInit \/ SWaitStartSDA \/ SWaitStartSCL \/ SWaitHigh \/ SSampleLock
  \/ SAddrSample \/ SDataSample \/ SSampleUnlock \/ SAddrWaitLow \/ SDecide
  \/ SReplyLock \/ SAck \/ SAckUnlock \/ SNack \/ SNackReturn
  \/ SDataWaitLow \/ SAck2 \/ SWaitStop

\* ---- main + I2CMaster_Write --------------------------------------------
\* main: sleep_for(10) ("give slave time to be ready"), then the call
MCall ==
  /\ pcM = "main_sleep"
  /\ SlaveWaiting
  /\ pcM' = "start_lock"
  /\ UNCHANGED nonI2C
  /\ UNCHANGED <<SDA, SCL, busLock, mi, address, data, pcS, si, sAddress,
                 received_address, received_data, addrReply>>

\* lock_guard<mutex> lock(I2C.busLock);  START block, loop bodies, STOP block
MLock ==
  /\ pcM \in {"start_lock", "addr_lock", "data_lock", "stop_lock"}
  /\ busLock = "none"
  /\ busLock' = "master"
  /\ pcM' = (CASE pcM = "start_lock" -> "start_sda"
               [] pcM = "addr_lock" -> "addr_sda"
               [] pcM = "data_lock" -> "data_sda"
               [] OTHER -> "stop_sda")
  /\ UNCHANGED nonI2C
  /\ UNCHANGED <<SDA, SCL, mi, address, data, pcS, si, sAddress,
                 received_address, received_data, addrReply>>

\* START: I2C.SDA = false;
MStartSDA ==
  /\ pcM = "start_sda"
  /\ SDA' = FALSE
  /\ pcM' = "start_scl"
  /\ UNCHANGED nonI2C
  /\ UNCHANGED <<SCL, busLock, mi, address, data, pcS, si, sAddress,
                 received_address, received_data, addrReply>>

\* START: I2C.SCL = true;
MStartSCL ==
  /\ pcM = "start_scl"
  /\ SCL' = TRUE
  /\ pcM' = "start_unlock"
  /\ UNCHANGED nonI2C
  /\ UNCHANGED <<SDA, busLock, mi, address, data, pcS, si, sAddress,
                 received_address, received_data, addrReply>>

MStartUnlock ==
  /\ pcM = "start_unlock"
  /\ busLock' = "none"
  /\ pcM' = "start_sleep"
  /\ UNCHANGED nonI2C
  /\ UNCHANGED <<SDA, SCL, mi, address, data, pcS, si, sAddress,
                 received_address, received_data, addrReply>>

\* sleep_for(50) after START, then for (int i = 7; ...)
MStartSleep ==
  /\ pcM = "start_sleep"
  /\ SlaveWaiting
  /\ mi' = 7
  /\ pcM' = "addr_lock"
  /\ UNCHANGED nonI2C
  /\ UNCHANGED <<SDA, SCL, busLock, address, data, pcS, si, sAddress,
                 received_address, received_data, addrReply>>

\* the bit the master puts on SDA: (address >> i) & 1, (data >> i) & 1
MasterBit(v, i) == Bit(v, i) = 1

\* I2C.SDA = (address >> i) & 1;
MAddrSDA ==
  /\ pcM = "addr_sda"
  /\ SDA' = MasterBit(address, mi)
  /\ pcM' = "addr_high"
  /\ UNCHANGED nonI2C
  /\ UNCHANGED <<SCL, busLock, mi, address, data, pcS, si, sAddress,
                 received_address, received_data, addrReply>>

\* I2C.SDA = (data >> i) & 1;
MDataSDA ==
  /\ pcM = "data_sda"
  /\ SDA' = MasterBit(data, mi)
  /\ pcM' = "data_high"
  /\ UNCHANGED nonI2C
  /\ UNCHANGED <<SCL, busLock, mi, address, data, pcS, si, sAddress,
                 received_address, received_data, addrReply>>

\* I2C.SCL = true;   in either loop
MClockHigh ==
  /\ pcM \in {"addr_high", "data_high"}
  /\ SCL' = TRUE
  /\ pcM' = (IF pcM = "addr_high" THEN "addr_sleep" ELSE "data_sleep")
  /\ UNCHANGED nonI2C
  /\ UNCHANGED <<SDA, busLock, mi, address, data, pcS, si, sAddress,
                 received_address, received_data, addrReply>>

\* sleep_for(50) inside the loop body: busLock is still held
MClockSleep ==
  /\ pcM \in {"addr_sleep", "data_sleep"}
  /\ SlaveWaiting
  /\ pcM' = (IF pcM = "addr_sleep" THEN "addr_low" ELSE "data_low")
  /\ UNCHANGED nonI2C
  /\ UNCHANGED <<SDA, SCL, busLock, mi, address, data, pcS, si, sAddress,
                 received_address, received_data, addrReply>>

\* I2C.SCL = false;   in either loop
MClockLow ==
  /\ pcM \in {"addr_low", "data_low"}
  /\ SCL' = FALSE
  /\ pcM' = (IF pcM = "addr_low" THEN "addr_unlock" ELSE "data_unlock")
  /\ UNCHANGED nonI2C
  /\ UNCHANGED <<SDA, busLock, mi, address, data, pcS, si, sAddress,
                 received_address, received_data, addrReply>>

\* end of the address loop body (lock_guard released), i--, test i >= 1
MAddrUnlock ==
  /\ pcM = "addr_unlock"
  /\ busLock' = "none"
  /\ IF mi > 1
       THEN mi' = mi - 1 /\ pcM' = "addr_lock"
       ELSE mi' = mi /\ pcM' = "ack_sleep"
  /\ UNCHANGED nonI2C
  /\ UNCHANGED <<SDA, SCL, address, data, pcS, si, sAddress,
                 received_address, received_data, addrReply>>

\* "Simulate wait for ACK/NACK": sleep_for(50); then for (int i = 7; ...)
MAckSleep ==
  /\ pcM = "ack_sleep"
  /\ SlaveWaiting
  /\ mi' = 7
  /\ pcM' = "data_lock"
  /\ UNCHANGED nonI2C
  /\ UNCHANGED <<SDA, SCL, busLock, address, data, pcS, si, sAddress,
                 received_address, received_data, addrReply>>

\* end of the data loop body (lock_guard released), i--, test i >= 0
MDataUnlock ==
  /\ pcM = "data_unlock"
  /\ busLock' = "none"
  /\ IF mi > 0
       THEN mi' = mi - 1 /\ pcM' = "data_lock"
       ELSE mi' = mi /\ pcM' = "stop_lock"
  /\ UNCHANGED nonI2C
  /\ UNCHANGED <<SDA, SCL, address, data, pcS, si, sAddress,
                 received_address, received_data, addrReply>>

\* STOP: I2C.SDA = true;
MStopSDA ==
  /\ pcM = "stop_sda"
  /\ SDA' = TRUE
  /\ pcM' = "stop_scl"
  /\ UNCHANGED nonI2C
  /\ UNCHANGED <<SCL, busLock, mi, address, data, pcS, si, sAddress,
                 received_address, received_data, addrReply>>

\* a STOP block that leaves the clock line as the last data bit left it
MStopSCLOmitted ==
  /\ pcM = "stop_scl"
  /\ pcM' = "stop_unlock"
  /\ UNCHANGED nonI2C
  /\ UNCHANGED <<SDA, SCL, busLock, mi, address, data, pcS, si, sAddress,
                 received_address, received_data, addrReply>>

\* STOP: I2C.SCL = true;
MStopSCL ==
  /\ pcM = "stop_scl"
  /\ SCL' = TRUE
  /\ pcM' = "stop_unlock"
  /\ UNCHANGED nonI2C
  /\ UNCHANGED <<SDA, busLock, mi, address, data, pcS, si, sAddress,
                 received_address, received_data, addrReply>>

\* end of the STOP block; I2CMaster_Write returns, main joins the slave
MStopUnlock ==
  /\ pcM = "stop_unlock"
  /\ busLock' = "none"
  /\ pcM' = "join"
  /\ UNCHANGED nonI2C
  /\ UNCHANGED <<SDA, SCL, mi, address, data, pcS, si, sAddress,
                 received_address, received_data, addrReply>>

\* slave_thread.join(); returns once I2CSlave has returned
MJoin ==
  /\ pcM = "join"
  /\ pcS = "done"
  /\ pcM' = "done"
  /\ UNCHANGED nonI2C
  /\ UNCHANGED <<SDA, SCL, busLock, mi, address, data, pcS, si, sAddress,
                 received_address, received_data, addrReply>>

I2CMaster_Write ==
  \/ MCall \/ MLock \/ MStartSDA \/ MStartSCL \/ MStartUnlock \/ MStartSleep
  \/ MAddrSDA \/ MDataSDA \/ MClockHigh \/ MClockSleep \/ MClockLow
  \/ MAddrUnlock \/ MAckSleep \/ MDataUnlock
  \/ MStopSDA \/ MStopSCL \/ MStopUnlock \/ MJoin

I2CNext == I2CSlave \/ I2CMaster_Write


(***************************************************************************)
(* 11_spi_realistic.cpp                                                    *)
(***************************************************************************)
\* The state main() starts the two threads in; with run = FALSE the program
\* is not running.
SPIStart(run) ==
  /\ MOSI = 0 /\ MISO = 0 /\ CS = TRUE /\ SCLK = FALSE /\ spiLock = "none"
  /\ pcSM = (IF run THEN "main_sleep" ELSE "off") /\ smi = 7
  /\ data_out \in (IF run THEN SpiBytes ELSE {0})
  /\ received_byte = 0
  /\ pcSS = (IF run THEN "init" ELSE "off") /\ ssi = 7
  /\ received_by_slave = 0

\* The slave cannot go on by itself: it polls a line that is not at the level
\* it waits for, waits for spiLock, or has returned.
SpiSlaveWaiting ==
  \/ pcSS = "wait_cs" /\ CS
  \/ pcSS = "wait_high" /\ ~SCLK
  \/ pcSS = "wait_low" /\ SCLK
  \/ pcSS = "lock" /\ spiLock # "none"
  \/ pcSS = "done"

\* ---- SPISlave -------------------------------------------------------------
\* received_byte = 0;
SpiSInit ==
  /\ pcSS = "init"
  /\ received_by_slave' = 0
  /\ pcSS' = "wait_cs"
  /\ UNCHANGED nonSPI
  /\ UNCHANGED <<MOSI, MISO, CS, SCLK, spiLock, pcSM, smi, data_out,
                 received_byte, ssi>>

\* while (SPI.CS) sleep(1);  then for (int i = 7; ...)
SpiSWaitCS ==
  /\ pcSS = "wait_cs"
  /\ ~CS
  /\ ssi' = 7
  /\ pcSS' = "wait_high"
  /\ UNCHANGED nonSPI
  /\ UNCHANGED <<MOSI, MISO, CS, SCLK, spiLock, pcSM, smi, data_out,
                 received_byte, received_by_slave>>

\* while (!SPI.SCLK) sleep(1);
SpiSWaitHigh ==
  /\ pcSS = "wait_high"
  /\ SCLK
  /\ pcSS' = "lock"
  /\ UNCHANGED nonSPI
  /\ UNCHANGED <<MOSI, MISO, CS, SCLK, spiLock, pcSM, smi, data_out,
                 received_byte, ssi, received_by_slave>>

\* lock_guard<mutex> lock(SPI.spiLock);
SpiSLock ==
  /\ pcSS = "lock"
  /\ spiLock = "none"
  /\ spiLock' = "slave"
  /\ pcSS' = "sample"
  /\ UNCHANGED nonSPI
  /\ UNCHANGED <<MOSI, MISO, CS, SCLK, pcSM, smi, data_out,
                 received_byte, ssi, received_by_slave>>

\* a slave that stores the bits least significant bit first
SpiSlaveBitLsbFirst(rb, mosi, i) == OrBit(rb, 7 - i, mosi % 2)

\* received_byte |= ((SPI.MOSI & 1) << i);
SpiSlaveBit(rb, mosi, i) == OrBit(rb, i, mosi % 2)

SpiSSample ==
  /\ pcSS = "sample"
  /\ received_by_slave' = SpiSlaveBit(received_by_slave, MOSI, ssi)
  /\ pcSS' = "echo"
  /\ UNCHANGED nonSPI
  /\ UNCHANGED <<MOSI, MISO, CS, SCLK, spiLock, pcSM, smi, data_out,
                 received_byte, ssi>>

\* a slave that echoes the complement of the bit
SpiEchoInverted(mosi) == 1 - (mosi % 2)

\* SPI.MISO = (SPI.MOSI & 1);
SpiEchoBit(mosi) == mosi % 2

SpiSEcho ==
  /\ pcSS = "echo"
  /\ MISO' = SpiEchoBit(MOSI)
  /\ pcSS' = "unlock"
  /\ UNCHANGED nonSPI
  /\ UNCHANGED <<MOSI, CS, SCLK, spiLock, pcSM, smi, data_out,
                 received_byte, ssi, received_by_slave>>

\* end of the block: the lock_guard is released
SpiSUnlock ==
  /\ pcSS = "unlock"
  /\ spiLock' = "none"
  /\ pcSS' = "wait_low"
  /\ UNCHANGED nonSPI
  /\ UNCHANGED <<MOSI, MISO, CS, SCLK, pcSM, smi, data_out,
                 received_byte, ssi, received_by_slave>>

\* while (SPI.SCLK) sleep(1);  then i--, loop test (i >= 0), return
SpiSWaitLow ==
  /\ pcSS = "wait_low"
  /\ ~SCLK
  /\ IF ssi > 0
       THEN ssi' = ssi - 1 /\ pcSS' = "wait_high"
       ELSE ssi' = ssi /\ pcSS' = "done"
  /\ UNCHANGED nonSPI
  /\ UNCHANGED <<MOSI, MISO, CS, SCLK, spiLock, pcSM, smi, data_out,
                 received_byte, received_by_slave>>

SPISlave ==
  \/ SpiSInit \/ SpiSWaitCS \/ SpiSWaitHigh \/ SpiSLock \/ SpiSSample
  \/ SpiSEcho \/ SpiSUnlock \/ SpiSWaitLow

\* ---- main + SPIMaster -----------------------------------------------------
\* main: sleep_for(10) ("give slave a moment to start"), then the call
SpiMCall ==
  /\ pcSM = "main_sleep"
  /\ SpiSlaveWaiting
  /\ pcSM' = "cs_low"
  /\ UNCHANGED nonSPI
  /\ UNCHANGED <<MOSI, MISO, CS, SCLK, spiLock, smi, data_out,
                 received_byte, pcSS, ssi, received_by_slave>>

\* SPI.CS = false;  uint8_t received_byte = 0;  for (int i = 7; ...)
SpiMSelect ==
  /\ pcSM = "cs_low"
  /\ CS' = FALSE
  /\ received_byte' = 0
  /\ smi' = 7
  /\ pcSM' = "bit_lock"
  /\ UNCHANGED nonSPI
  /\ UNCHANGED <<MOSI, MISO, SCLK, spiLock, data_out, pcSS, ssi,
                 received_by_slave>>

\* lock_guard<mutex> lock(SPI.spiLock);   both blocks of the loop body
SpiMLock ==
  /\ pcSM \in {"bit_lock", "read_lock"}
  /\ spiLock = "none"
  /\ spiLock' = "master"
  /\ pcSM' = (IF pcSM = "bit_lock" THEN "bit_mosi" ELSE "read_miso")
  /\ UNCHANGED nonSPI
  /\ UNCHANGED <<MOSI, MISO, CS, SCLK, smi, data_out, received_byte,
                 pcSS, ssi, received_by_slave>>

\* SPI.MOSI = (data_out >> i) & 1;
SpiMasterBit(v, i) == Bit(v, i)

SpiMSetMOSI ==
  /\ pcSM = "bit_mosi"
  /\ MOSI' = SpiMasterBit(data_out, smi)
  /\ pcSM' = "clk_high"
  /\ UNCHANGED nonSPI
  /\ UNCHANGED <<MISO, CS, SCLK, spiLock, smi, data_out, received_byte,
                 pcSS, ssi, received_by_slave>>

\* SPI.SCLK = true;
SpiMClockHigh ==
  /\ pcSM = "clk_high"
  /\ SCLK' = TRUE
  /\ pcSM' = "bit_unlock"
  /\ UNCHANGED nonSPI
  /\ UNCHANGED <<MOSI, MISO, CS, spiLock, smi, data_out, received_byte,
                 pcSS, ssi, received_by_slave>>

\* end of a block of the loop body: the lock_guard is released
SpiMUnlock ==
  /\ pcSM \in {"bit_unlock", "read_unlock"}
  /\ spiLock' = "none"
  /\ pcSM' = (IF pcSM = "bit_unlock" THEN "high_sleep" ELSE "low_sleep")
  /\ UNCHANGED nonSPI
  /\ UNCHANGED <<MOSI, MISO, CS, SCLK, smi, data_out, received_byte,
                 pcSS, ssi, received_by_slave>>

\* a master that does not hold SCLK high for any length of time
SpiMHighSleepCutShort ==
  /\ pcSM = "high_sleep"
  /\ pcSM' = "read_lock"
  /\ UNCHANGED nonSPI
  /\ UNCHANGED <<MOSI, MISO, CS, SCLK, spiLock, smi, data_out,
                 received_byte, pcSS, ssi, received_by_slave>>

\* sleep_for(50) with SCLK high
SpiMHighSleep ==
  /\ pcSM = "high_sleep"
  /\ SpiSlaveWaiting
  /\ pcSM' = "read_lock"
  /\ UNCHANGED nonSPI
  /\ UNCHANGED <<MOSI, MISO, CS, SCLK, spiLock, smi, data_out,
                 received_byte, pcSS, ssi, received_by_slave>>

\* received_byte |= ((SPI.MISO & 1) << i);
SpiMasterReadBit(rb, miso, i) == OrBit(rb, i, miso % 2)

SpiMReadMISO ==
  /\ pcSM = "read_miso"
  /\ received_byte' = SpiMasterReadBit(received_byte, MISO, smi)
  /\ pcSM' = "clk_low"
  /\ UNCHANGED nonSPI
  /\ UNCHANGED <<MOSI, MISO, CS, SCLK, spiLock, smi, data_out,
                 pcSS, ssi, received_by_slave>>

\* a master that leaves SCLK high at the end of a bit
SpiMClockLowOmitted ==
  /\ pcSM = "clk_low"
  /\ SCLK' = SCLK
  /\ pcSM' = "read_unlock"
  /\ UNCHANGED nonSPI
  /\ UNCHANGED <<MOSI, MISO, CS, spiLock, smi, data_out, received_byte,
                 pcSS, ssi, received_by_slave>>

\* SPI.SCLK = false;
SpiMClockLow ==
  /\ pcSM = "clk_low"
  /\ SCLK' = FALSE
  /\ pcSM' = "read_unlock"
  /\ UNCHANGED nonSPI
  /\ UNCHANGED <<MOSI, MISO, CS, spiLock, smi, data_out, received_byte,
                 pcSS, ssi, received_by_slave>>

\* sleep_for(50) with SCLK low, then i--, loop test (i >= 0)
SpiMLowSleep ==
  /\ pcSM = "low_sleep"
  /\ SpiSlaveWaiting
  /\ IF smi > 0
       THEN smi' = smi - 1 /\ pcSM' = "bit_lock"
       ELSE smi' = smi /\ pcSM' = "cs_high"
  /\ UNCHANGED nonSPI
  /\ UNCHANGED <<MOSI, MISO, CS, SCLK, spiLock, data_out, received_byte,
                 pcSS, ssi, received_by_slave>>

\* SPI.CS = true;  SPIMaster returns, main joins the slave
SpiMDeselect ==
  /\ pcSM = "cs_high"
  /\ CS' = TRUE
  /\ pcSM' = "join"
  /\ UNCHANGED nonSPI
  /\ UNCHANGED <<MOSI, MISO, SCLK, spiLock, smi, data_out, received_byte,
                 pcSS, ssi, received_by_slave>>

\* slave_thread.join(); returns once SPISlave has returned
SpiMJoin ==
  /\ pcSM = "join"
  /\ pcSS = "done"
  /\ pcSM' = "done"
  /\ UNCHANGED nonSPI
  /\ UNCHANGED <<MOSI, MISO, CS, SCLK, spiLock, smi, data_out,
                 received_byte, pcSS, ssi, received_by_slave>>

SPIMaster ==
  \/ SpiMCall \/ SpiMSelect \/ SpiMLock \/ SpiMSetMOSI \/ SpiMClockHigh
  \/ SpiMUnlock \/ SpiMHighSleep \/ SpiMReadMISO \/ SpiMClockLow
  \/ SpiMLowSleep \/ SpiMDeselect \/ SpiMJoin

SPINext == SPISlave \/ SPIMaster

(***************************************************************************)
(* 14_rtos_advanced.cpp                                                    *)
(*                                                                         *)
(* pipelineQueue is a std::queue<int> that the three tasks use without a   *)
(* lock.  Each call on it (empty, front, pop, push) is one step.  front()  *)
(* and pop() of an empty queue are undefined: front() then yields any of   *)
(* GarbageValues, and pop() moves the queue's start past its end, after    *)
(* which empty() is false and the next push is overwritten by the start    *)
(* catching up (qUnderflow counts the distance).  The model follows at     *)
(* most MaxUnderflow such pops.                                            *)
(***************************************************************************)
\* The state main() starts the three tasks in; with run = FALSE the program
\* is not running.
PipeStart(run) ==
  /\ dataQueue = <<>> /\ qUnderflow = 0 /\ headRead = FALSE
  /\ count = SlotCapacity /\ mtx = "none"
  /\ sensor_mutex = "none" /\ uart_mutex = "none"
  /\ pcSen = (IF run THEN "loop" ELSE "off") /\ sensor_value = 0
  /\ pcProc = (IF run THEN "check" ELSE "off") /\ valP = 0 /\ processed = 0
  /\ pcUart = (IF run THEN "check" ELSE "off") /\ valU = 0
  /\ pcMain = (IF run THEN "join" ELSE "off")
  /\ uartOut = <<>>
  /\ pushed = <<>> /\ nTaken = 0 /\ inOrder = TRUE /\ takenTwice = FALSE
  /\ lost = {}
  /\ waitsDone = 0 /\ signalsDone = 0

\* ---- std::queue<int> --------------------------------------------------------
\* dataQueue.empty()
QueueEmpty == dataQueue = <<>> /\ qUnderflow = 0

\* the values dataQueue.front() may return
QueueFront == IF dataQueue # <<>> THEN {Head(dataQueue)} ELSE GarbageValues

\* what a front() call leaves in the bookkeeping of the model
QueueFrontNote ==
  /\ nTaken' = nTaken + 1
  /\ takenTwice' = (takenTwice \/ (dataQueue # <<>> /\ headRead))
  /\ headRead' = (dataQueue # <<>>)

\* v is the value the producer pushed as its (nTaken + 1)-th
IsNextPushed(v) == nTaken + 1 <= Len(pushed) /\ pushed[nTaken + 1] = v

\* dataQueue.pop()
QueuePop ==
  IF dataQueue # <<>>
    THEN /\ dataQueue' = Tail(dataQueue)
         /\ lost' = (IF headRead THEN lost ELSE lost \cup {Head(dataQueue)})
         /\ headRead' = FALSE
         /\ UNCHANGED qUnderflow
    ELSE /\ qUnderflow < MaxUnderflow
         /\ qUnderflow' = qUnderflow + 1
         /\ UNCHANGED <<dataQueue, lost, headRead>>

\* dataQueue.push(v)
QueuePush(v) ==
  IF qUnderflow = 0
    THEN /\ dataQueue' = Append(dataQueue, v)
         /\ UNCHANGED <<qUnderflow, lost>>
    ELSE /\ qUnderflow' = qUnderflow - 1
         /\ lost' = lost \cup {v}
         /\ UNCHANGED dataQueue

\* ---- task_sensor_read -------------------------------------------------------
\* while (sensor_value < 5)     (after the first round: sleep_for(100) first)
SensorLoop ==
  /\ pcSen = "loop"
  /\ pcSen' = (IF sensor_value < Readings THEN "lock" ELSE "done")
  /\ UNCHANGED <<nonPipe, processed>>
  /\ UNCHANGED <<dataQueue, qUnderflow, headRead, count, mtx, sensor_mutex,
                 uart_mutex, sensor_value, pcProc, valP, pcUart, valU,
                 pcMain, pushed, nTaken, inOrder, takenTwice, lost, uartOut, waitsDone,
                 signalsDone>>

\* lock_guard<mutex> lock(sensor_mutex);
SensorLock ==
  /\ pcSen = "lock"
  /\ sensor_mutex = "none"
  /\ sensor_mutex' = "sensor"
  /\ pcSen' = "read"
  /\ UNCHANGED <<nonPipe, processed>>
  /\ UNCHANGED <<dataQueue, qUnderflow, headRead, count, mtx,
                 uart_mutex, sensor_value, pcProc, valP, pcUart, valU,
                 pcMain, pushed, nTaken, inOrder, takenTwice, lost, uartOut, waitsDone,
                 signalsDone>>

\* a producer whose lock on the sensor outlives the block
SensorReadKeepsLock ==
  /\ pcSen = "read"
  /\ sensor_value' = sensor_value + 1
  /\ pcSen' = "wait_lock"
  /\ UNCHANGED <<nonPipe, processed>>
  /\ UNCHANGED <<dataQueue, qUnderflow, headRead, count, mtx, sensor_mutex,
                 uart_mutex, pcProc, valP, pcUart, valU,
                 pcMain, pushed, nTaken, inOrder, takenTwice, lost, uartOut, waitsDone,
                 signalsDone>>

\* sensor_value++;  and the end of the block
SensorRead ==
  /\ pcSen = "read"
  /\ sensor_value' = sensor_value + 1
  /\ sensor_mutex' = "none"
  /\ pcSen' = "wait_lock"
  /\ UNCHANGED <<nonPipe, processed>>
  /\ UNCHANGED <<dataQueue, qUnderflow, headRead, count, mtx,
                 uart_mutex, pcProc, valP, pcUart, valU,
                 pcMain, pushed, nTaken, inOrder, takenTwice, lost, uartOut, waitsDone,
                 signalsDone>>

\* Semaphore::wait: unique_lock<mutex> lock(mtx);  also the re-lock when
\* cv.wait wakes up
WaitLock ==
  /\ pcSen = "wait_lock"
  /\ mtx = "none"
  /\ mtx' = "sensor"
  /\ pcSen' = "wait_test"
  /\ UNCHANGED <<nonPipe, processed>>
  /\ UNCHANGED <<dataQueue, qUnderflow, headRead, count, sensor_mutex,
                 uart_mutex, sensor_value, pcProc, valP, pcUart, valU,
                 pcMain, pushed, nTaken, inOrder, takenTwice, lost, uartOut, waitsDone,
                 signalsDone>>

\* a gate that lets the producer through one slot too many
SlotFreeOneMore(c) == c >= 0

\* the predicate of cv.wait: count > 0
SlotFree(c) == c > 0

\* a wait() that lets the caller through without taking a slot
WaitTestSkipsGate ==
  /\ pcSen = "wait_test"
  /\ pcSen' = "push"
  /\ mtx' = "none"
  /\ UNCHANGED <<nonPipe, processed>>
  /\ UNCHANGED <<dataQueue, qUnderflow, headRead, sensor_mutex, count,
                 uart_mutex, sensor_value, pcProc, valP, pcUart, valU,
                 pcMain, pushed, nTaken, inOrder, takenTwice, lost, uartOut,
                 waitsDone, signalsDone>>

\* cv.wait(lock, [&]() { return count > 0; });  count--;  return
\* either the predicate holds: count--, mtx released on return; or the thread
\* releases mtx and blocks on cv
WaitTest ==
  /\ pcSen = "wait_test"
  /\ IF SlotFree(count)
       THEN /\ count' = count - 1
            /\ waitsDone' = waitsDone + 1
            /\ pcSen' = "push"
       ELSE /\ pcSen' = "blocked"
            /\ UNCHANGED <<count, waitsDone>>
  /\ mtx' = "none"
  /\ UNCHANGED <<nonPipe, processed>>
  /\ UNCHANGED <<dataQueue, qUnderflow, headRead, sensor_mutex,
                 uart_mutex, sensor_value, pcProc, valP, pcUart, valU,
                 pcMain, pushed, nTaken, inOrder, takenTwice, lost, uartOut,
                 signalsDone>>

\* a spurious wake-up of cv.wait
WaitSpurious ==
  /\ pcSen = "blocked"
  /\ pcSen' = "wait_lock"
  /\ UNCHANGED <<nonPipe, processed>>
  /\ UNCHANGED <<dataQueue, qUnderflow, headRead, count, mtx, sensor_mutex,
                 uart_mutex, sensor_value, pcProc, valP, pcUart, valU,
                 pcMain, pushed, nTaken, inOrder, takenTwice, lost, uartOut, waitsDone,
                 signalsDone>>

\* dataQueue.push(sensor_value);
SensorPush ==
  /\ pcSen = "push"
  /\ QueuePush(sensor_value)
  /\ pushed' = Append(pushed, sensor_value)
  /\ pcSen' = "loop"
  /\ UNCHANGED <<nonPipe, processed>>
  /\ UNCHANGED <<headRead, count, mtx, sensor_mutex,
                 uart_mutex, sensor_value, pcProc, valP, pcUart, valU,
                 pcMain, nTaken, inOrder, takenTwice, uartOut, waitsDone,
                 signalsDone>>

task_sensor_read ==
  \/ SensorLoop \/ SensorLock \/ SensorRead \/ WaitLock \/ WaitTest
  \/ WaitSpurious \/ SensorPush

\* ---- task_data_process ------------------------------------------------------
\* if (!dataQueue.empty())     (else sleep_for(50) and test again)
ProcCheck ==
  /\ pcProc = "check"
  /\ ~QueueEmpty
  /\ pcProc' = "front"
  /\ UNCHANGED <<nonPipe, processed>>
  /\ UNCHANGED <<dataQueue, qUnderflow, headRead, count, mtx, sensor_mutex,
                 uart_mutex, pcSen, sensor_value, valP, pcUart, valU,
                 pcMain, pushed, nTaken, inOrder, takenTwice, lost, uartOut, waitsDone,
                 signalsDone>>

\* int val = dataQueue.front();
ProcFront ==
  /\ pcProc = "front"
  /\ \E v \in QueueFront :
       /\ valP' = v
       /\ inOrder' = (inOrder /\ IsNextPushed(v))
  /\ QueueFrontNote
  /\ pcProc' = "pop"
  /\ UNCHANGED <<nonPipe, processed>>
  /\ UNCHANGED <<dataQueue, qUnderflow, count, mtx, sensor_mutex,
                 uart_mutex, pcSen, sensor_value, pcUart, valU,
                 pcMain, pushed, lost, uartOut, waitsDone,
                 signalsDone>>

\* dataQueue.pop();
ProcPop ==
  /\ pcProc = "pop"
  /\ QueuePop
  /\ pcProc' = "print"
  /\ UNCHANGED <<nonPipe, processed>>
  /\ UNCHANGED <<count, mtx, sensor_mutex,
                 uart_mutex, pcSen, sensor_value, valP, pcUart, valU,
                 pcMain, pushed, nTaken, inOrder, takenTwice, uartOut, waitsDone,
                 signalsDone>>

\* int processed = val * 2;
Processed(val) == val * 2

\* cout << "[PROCESS] Processed data: " << processed     (nothing is forwarded)
ProcPrint ==
  /\ pcProc = "print"
  /\ processed' = Processed(valP)
  /\ pcProc' = "signal_lock"
  /\ UNCHANGED nonPipe
  /\ UNCHANGED <<dataQueue, qUnderflow, headRead, count, mtx, sensor_mutex,
                 uart_mutex, pcSen, sensor_value, valP, pcUart, valU,
                 pcMain, pushed, nTaken, inOrder, takenTwice, lost, uartOut, waitsDone,
                 signalsDone>>

\* Semaphore::signal: unique_lock<mutex> lock(mtx);
SignalLock ==
  /\ pcProc = "signal_lock"
  /\ mtx = "none"
  /\ mtx' = "process"
  /\ pcProc' = "signal"
  /\ UNCHANGED <<nonPipe, processed>>
  /\ UNCHANGED <<dataQueue, qUnderflow, headRead, count, sensor_mutex,
                 uart_mutex, pcSen, sensor_value, valP, pcUart, valU,
                 pcMain, pushed, nTaken, inOrder, takenTwice, lost, uartOut, waitsDone,
                 signalsDone>>

\* a signal() that increments the count and notifies nobody
SignalWithoutNotify ==
  /\ pcProc = "signal"
  /\ count' = count + 1
  /\ signalsDone' = signalsDone + 1
  /\ mtx' = "none"
  /\ pcProc' = "check"
  /\ UNCHANGED <<nonPipe, processed>>
  /\ UNCHANGED <<dataQueue, qUnderflow, headRead, sensor_mutex, pcSen,
                 uart_mutex, sensor_value, valP, pcUart, valU,
                 pcMain, pushed, nTaken, inOrder, takenTwice, lost, uartOut, waitsDone>>

\* count++;  cv.notify_one();  return (mtx released)
Signal ==
  /\ pcProc = "signal"
  /\ count' = count + 1
  /\ signalsDone' = signalsDone + 1
  /\ pcSen' = (IF pcSen = "blocked" THEN "wait_lock" ELSE pcSen)
  /\ mtx' = "none"
  /\ pcProc' = "check"
  /\ UNCHANGED <<nonPipe, processed>>
  /\ UNCHANGED <<dataQueue, qUnderflow, headRead, sensor_mutex,
                 uart_mutex, sensor_value, valP, pcUart, valU,
                 pcMain, pushed, nTaken, inOrder, takenTwice, lost, uartOut, waitsDone>>

task_data_process ==
  \/ ProcCheck \/ ProcFront \/ ProcPop \/ ProcPrint \/ SignalLock \/ Signal

\* ---- task_uart_send ---------------------------------------------------------
\* if (!dataQueue.empty())     (else sleep_for(50) and test again)
UartCheck ==
  /\ pcUart = "check"
  /\ ~QueueEmpty
  /\ pcUart' = "front"
  /\ UNCHANGED <<nonPipe, processed>>
  /\ UNCHANGED <<dataQueue, qUnderflow, headRead, count, mtx, sensor_mutex,
                 uart_mutex, pcSen, sensor_value, pcProc, valP, valU,
                 pcMain, pushed, nTaken, inOrder, takenTwice, lost, uartOut, waitsDone,
                 signalsDone>>

\* int val = dataQueue.front();
UartFront ==
  /\ pcUart = "front"
  /\ \E v \in QueueFront :
       /\ valU' = v
       /\ inOrder' = (inOrder /\ IsNextPushed(v))
  /\ QueueFrontNote
  /\ pcUart' = "pop"
  /\ UNCHANGED <<nonPipe, processed>>
  /\ UNCHANGED <<dataQueue, qUnderflow, count, mtx, sensor_mutex,
                 uart_mutex, pcSen, sensor_value, pcProc, valP,
                 pcMain, pushed, lost, uartOut, waitsDone,
                 signalsDone>>

\* dataQueue.pop();
UartPop ==
  /\ pcUart = "pop"
  /\ QueuePop
  /\ pcUart' = "lock"
  /\ UNCHANGED <<nonPipe, processed>>
  /\ UNCHANGED <<count, mtx, sensor_mutex,
                 uart_mutex, pcSen, sensor_value, pcProc, valP, valU,
                 pcMain, pushed, nTaken, inOrder, takenTwice, uartOut, waitsDone,
                 signalsDone>>

\* lock_guard<mutex> lock(uart_mutex);
UartLock ==
  /\ pcUart = "lock"
  /\ uart_mutex = "none"
  /\ uart_mutex' = "uart"
  /\ pcUart' = "send"
  /\ UNCHANGED <<nonPipe, processed>>
  /\ UNCHANGED <<dataQueue, qUnderflow, headRead, count, mtx, sensor_mutex,
                 pcSen, sensor_value, pcProc, valP, valU,
                 pcMain, pushed, nTaken, inOrder, takenTwice, lost, uartOut, waitsDone,
                 signalsDone>>

\* cout << "[UART] Sending data: " << val
UartSend ==
  /\ pcUart = "send"
  /\ uartOut' = Append(uartOut, valU)
  /\ pcUart' = "unlock"
  /\ UNCHANGED <<nonPipe, processed>>
  /\ UNCHANGED <<dataQueue, qUnderflow, headRead, count, mtx, sensor_mutex,
                 uart_mutex, pcSen, sensor_value, pcProc, valP, valU,
                 pcMain, pushed, nTaken, inOrder, takenTwice, lost, waitsDone,
                 signalsDone>>

\* sleep_for(50); end of the block: uart_mutex released
UartUnlock ==
  /\ pcUart = "unlock"
  /\ uart_mutex' = "none"
  /\ pcUart' = "check"
  /\ UNCHANGED <<nonPipe, processed>>
  /\ UNCHANGED <<dataQueue, qUnderflow, headRead, count, mtx, sensor_mutex,
                 pcSen, sensor_value, pcProc, valP, valU,
                 pcMain, pushed, nTaken, inOrder, takenTwice, lost, uartOut, waitsDone,
                 signalsDone>>

task_uart_send ==
  \/ UartCheck \/ UartFront \/ UartPop \/ UartLock \/ UartSend \/ UartUnlock

\* ---- main -------------------------------------------------------------------
\* sensor.join();
MainJoin ==
  /\ pcMain = "join"
  /\ pcSen = "done"
  /\ pcMain' = "sleep"
  /\ UNCHANGED <<nonPipe, processed>>
  /\ UNCHANGED <<dataQueue, qUnderflow, headRead, count, mtx, sensor_mutex,
                 uart_mutex, pcSen, sensor_value, pcProc, valP, pcUart, valU,
                 pushed, nTaken, inOrder, takenTwice, lost, uartOut, waitsDone,
                 signalsDone>>

\* sleep_for(seconds(2)), forty polling periods of the two other tasks: it
\* ends when both find the queue empty (or never will again); then detach and
\* return 0, which ends the process and the two tasks with it
MainExit ==
  /\ pcMain = "sleep"
  /\ \/ pcProc = "check" /\ pcUart = "check" /\ QueueEmpty
     \/ qUnderflow > 0
  /\ pcMain' = "exited"
  /\ pcProc' = "ended"
  /\ pcUart' = "ended"
  /\ UNCHANGED <<nonPipe, processed>>
  /\ UNCHANGED <<dataQueue, qUnderflow, headRead, count, mtx, sensor_mutex,
                 uart_mutex, pcSen, sensor_value, valP, valU,
                 pushed, nTaken, inOrder, takenTwice, lost, uartOut, waitsDone,
                 signalsDone>>

PipeMain == MainJoin \/ MainExit

PipeNext == task_sensor_read \/ task_data_process \/ task_uart_send \/ PipeMain

(***************************************************************************)
(* 13_firmware_validation.cpp                                              *)
(*                                                                         *)
(* main runs test_UART_SendChar, which clears UART1 and calls              *)
(* UART_SendChar; the character sent is drawn from ValChars.               *)
(***************************************************************************)
\* The state main() starts in; with run = FALSE the program is not running.
ValStart(run) ==
  /\ vTxBuffer = <<>> /\ vTxReady = TRUE
  /\ vData \in (IF run THEN ValChars ELSE {0})
  /\ pcV = (IF run THEN "clear" ELSE "off")

\* UART1.txBuffer = queue<char>();
VClear ==
  /\ pcV = "clear"
  /\ vTxBuffer' = <<>>
  /\ pcV' = "set_ready"
  /\ UNCHANGED nonVal
  /\ UNCHANGED <<vTxReady, vData>>

\* UART1.txReady = true;  then the call UART_SendChar(data)
VSetReady ==
  /\ pcV = "set_ready"
  /\ vTxReady' = TRUE
  /\ pcV' = "test_ready"
  /\ UNCHANGED nonVal
  /\ UNCHANGED <<vTxBuffer, vData>>

\* if (UART1.txReady)     (else UART_SendChar returns)
VTestReady ==
  /\ pcV = "test_ready"
  /\ pcV' = (IF vTxReady THEN "push" ELSE "assert_nonempty")
  /\ UNCHANGED nonVal
  /\ UNCHANGED <<vTxBuffer, vTxReady, vData>>

\* UART1.txBuffer.push(data);
VPush ==
  /\ pcV = "push"
  /\ vTxBuffer' = Append(vTxBuffer, vData)
  /\ pcV' = "busy"
  /\ UNCHANGED nonVal
  /\ UNCHANGED <<vTxReady, vData>>

\* UART1.txReady = false; // busy
VBusy ==
  /\ pcV = "busy"
  /\ vTxReady' = FALSE
  /\ pcV' = "ready"
  /\ UNCHANGED nonVal
  /\ UNCHANGED <<vTxBuffer, vData>>

\* a UART_SendChar that returns while still marked busy
VReadyOmitted ==
  /\ pcV = "ready"
  /\ pcV' = "assert_nonempty"
  /\ UNCHANGED nonVal
  /\ UNCHANGED <<vTxBuffer, vTxReady, vData>>

\* UART1.txReady = true;  // mark ready again; UART_SendChar returns
VReady ==
  /\ pcV = "ready"
  /\ vTxReady' = TRUE
  /\ pcV' = "assert_nonempty"
  /\ UNCHANGED nonVal
  /\ UNCHANGED <<vTxBuffer, vData>>

\* assert(!UART1.txBuffer.empty());
VAssertNonEmpty ==
  /\ pcV = "assert_nonempty"
  /\ pcV' = (IF vTxBuffer # <<>> THEN "assert_front" ELSE "aborted")
  /\ UNCHANGED nonVal
  /\ UNCHANGED <<vTxBuffer, vTxReady, vData>>

\* assert(UART1.txBuffer.front() == data);
VAssertFront ==
  /\ pcV = "assert_front"
  /\ pcV' = (IF Head(vTxBuffer) = vData THEN "passed" ELSE "aborted")
  /\ UNCHANGED nonVal
  /\ UNCHANGED <<vTxBuffer, vTxReady, vData>>

\* "[TEST PASSED]", back in main, return 0
VReturn ==
  /\ pcV = "passed"
  /\ pcV' = "done"
  /\ UNCHANGED nonVal
  /\ UNCHANGED <<vTxBuffer, vTxReady, vData>>

ValNext ==
  \/ VClear \/ VSetReady \/ VTestReady \/ VPush \/ VBusy \/ VReady
  \/ VAssertNonEmpty \/ VAssertFront \/ VReturn

(***************************************************************************)
(* 10_uart_simulation.cpp                                                  *)
(*                                                                         *)
(* main sends 'H', 'i', '!', sleeps, and reads three times, while the      *)
(* thread UART_TransferWire moves characters from txBuffer to rxBuffer.    *)
(* Both touch the UART only while holding UART.uartLock, so what a thread  *)
(* does to the buffers inside the lock is one step.  The sleeps are not    *)
(* timed: every order of the two threads is explored.                      *)
(***************************************************************************)
\* The state main() starts in; with run = FALSE the program is not running.
UartStart(run) ==
  /\ uTxBuffer = <<>> /\ uRxBuffer = <<>>
  /\ uTxReady = TRUE /\ uRxReady = FALSE
  /\ uartLock = "none"
  /\ pcUM = (IF run THEN "send_lock" ELSE "off") /\ uIdx = 1
  /\ uRet = 0
  /\ pcW = (IF run THEN "sleep" ELSE "off") /\ wData = 0
  /\ uSent = <<>> /\ uGot = <<>>

\* ---- main: UART_SendChar ----------------------------------------------------
\* lock_guard<mutex> lock(UART.uartLock);
USendLock ==
  /\ pcUM = "send_lock"
  /\ uartLock = "none"
  /\ uartLock' = "main"
  /\ pcUM' = "send_test"
  /\ UNCHANGED nonUart
  /\ UNCHANGED <<uSent, uGot>>
  /\ UNCHANGED <<uTxBuffer, uRxBuffer, uTxReady, uRxReady, uIdx, uRet, pcW,
                 wData>>

\* if (UART.txReady)     (the call's argument is noted in uSent)
USendTest ==
  /\ pcUM = "send_test"
  /\ pcUM' = (IF uTxReady THEN "send_push" ELSE "send_unlock")
  /\ UNCHANGED nonUart
  /\ uSent' = Append(uSent, UartMessage[uIdx])
  /\ UNCHANGED uGot
  /\ UNCHANGED <<uTxBuffer, uRxBuffer, uTxReady, uRxReady, uartLock, uIdx,
                 uRet, pcW, wData>>

\* UART.txBuffer.push(data);  UART.txReady = false;
USendPush ==
  /\ pcUM = "send_push"
  /\ uTxBuffer' = Append(uTxBuffer, UartMessage[uIdx])
  /\ uTxReady' = FALSE
  /\ pcUM' = "send_busy"
  /\ UNCHANGED nonUart
  /\ UNCHANGED <<uSent, uGot>>
  /\ UNCHANGED <<uRxBuffer, uRxReady, uartLock, uIdx, uRet, pcW, wData>>

\* a UART_SendChar that returns while still marked busy
USendReadyOmitted ==
  /\ pcUM = "send_busy"
  /\ uTxReady' = uTxReady
  /\ pcUM' = "send_unlock"
  /\ UNCHANGED nonUart
  /\ UNCHANGED <<uSent, uGot>>
  /\ UNCHANGED <<uTxBuffer, uRxBuffer, uRxReady, uartLock, uIdx, uRet, pcW,
                 wData>>

\* sleep_for(100);  UART.txReady = true;
USendReady ==
  /\ pcUM = "send_busy"
  /\ uTxReady' = TRUE
  /\ pcUM' = "send_unlock"
  /\ UNCHANGED nonUart
  /\ UNCHANGED <<uSent, uGot>>
  /\ UNCHANGED <<uTxBuffer, uRxBuffer, uRxReady, uartLock, uIdx, uRet, pcW,
                 wData>>

\* UART_SendChar returns (lock released); the next call, or sleep_for(500)
USendUnlock ==
  /\ pcUM = "send_unlock"
  /\ uartLock' = "none"
  /\ IF uIdx < Len(UartMessage)
       THEN uIdx' = uIdx + 1 /\ pcUM' = "send_lock"
       ELSE uIdx' = 1 /\ pcUM' = "sleep"
  /\ UNCHANGED nonUart
  /\ UNCHANGED <<uSent, uGot>>
  /\ UNCHANGED <<uTxBuffer, uRxBuffer, uTxReady, uRxReady, uRet, pcW, wData>>

\* this_thread::sleep_for(chrono::milliseconds(500));
UMainSleep ==
  /\ pcUM = "sleep"
  /\ pcUM' = "read_lock"
  /\ UNCHANGED nonUart
  /\ UNCHANGED <<uSent, uGot>>
  /\ UNCHANGED <<uTxBuffer, uRxBuffer, uTxReady, uRxReady, uartLock, uIdx,
                 uRet, pcW, wData>>

\* ---- main: UART_ReadChar ----------------------------------------------------
\* lock_guard<mutex> lock(UART.uartLock);
UReadLock ==
  /\ pcUM = "read_lock"
  /\ uartLock = "none"
  /\ uartLock' = "main"
  /\ pcUM' = "read_body"
  /\ UNCHANGED nonUart
  /\ UNCHANGED <<uSent, uGot>>
  /\ UNCHANGED <<uTxBuffer, uRxBuffer, uTxReady, uRxReady, uIdx, uRet, pcW,
                 wData>>

\* a UART_ReadChar that returns the character without removing it
UReadBodyKeeps ==
  /\ pcUM = "read_body"
  /\ uRet' = (IF uRxBuffer # <<>> THEN Head(uRxBuffer) ELSE 0)
  /\ pcUM' = "read_unlock"
  /\ UNCHANGED nonUart
  /\ uGot' = (IF uRxBuffer # <<>> /\ Head(uRxBuffer) # 0
               THEN Append(uGot, Head(uRxBuffer)) ELSE uGot)
  /\ UNCHANGED uSent
  /\ UNCHANGED <<uTxBuffer, uRxBuffer, uTxReady, uRxReady, uartLock, uIdx,
                 pcW, wData>>

\* a UART_ReadChar that does not update the status flag
UReadBodyFlagStale ==
  /\ pcUM = "read_body"
  /\ IF uRxBuffer # <<>>
       THEN /\ uRet' = Head(uRxBuffer)
            /\ uRxBuffer' = Tail(uRxBuffer)
            /\ uRxReady' = uRxReady
       ELSE /\ uRet' = 0
            /\ UNCHANGED <<uRxBuffer, uRxReady>>
  /\ pcUM' = "read_unlock"
  /\ UNCHANGED nonUart
  /\ uGot' = (IF uRxBuffer # <<>> /\ Head(uRxBuffer) # 0
               THEN Append(uGot, Head(uRxBuffer)) ELSE uGot)
  /\ UNCHANGED uSent
  /\ UNCHANGED <<uTxBuffer, uTxReady, uartLock, uIdx, pcW, wData>>

\* if (!UART.rxBuffer.empty()) { data = front(); pop();
\*   UART.rxReady = !UART.rxBuffer.empty(); return data; }  return 0;
UReadBody ==
  /\ pcUM = "read_body"
  /\ IF uRxBuffer # <<>>
       THEN /\ uRet' = Head(uRxBuffer)
            /\ uRxBuffer' = Tail(uRxBuffer)
            /\ uRxReady' = (Tail(uRxBuffer) # <<>>)
       ELSE /\ uRet' = 0
            /\ UNCHANGED <<uRxBuffer, uRxReady>>
  /\ pcUM' = "read_unlock"
  /\ UNCHANGED nonUart
  /\ uGot' = (IF uRxBuffer # <<>> /\ Head(uRxBuffer) # 0
               THEN Append(uGot, Head(uRxBuffer)) ELSE uGot)
  /\ UNCHANGED uSent
  /\ UNCHANGED <<uTxBuffer, uTxReady, uartLock, uIdx, pcW, wData>>

\* UART_ReadChar returns (lock released); the next call, or the end of main
UReadUnlock ==
  /\ pcUM = "read_unlock"
  /\ uartLock' = "none"
  /\ IF uIdx < Len(UartMessage)
       THEN uIdx' = uIdx + 1 /\ pcUM' = "read_lock"
       ELSE uIdx' = uIdx /\ pcUM' = "detach"
  /\ UNCHANGED nonUart
  /\ UNCHANGED <<uSent, uGot>>
  /\ UNCHANGED <<uTxBuffer, uRxBuffer, uTxReady, uRxReady, uRet, pcW, wData>>

\* wire.detach();  return 0;  which ends the process and the wire thread
UExit ==
  /\ pcUM = "detach"
  /\ pcUM' = "done"
  /\ pcW' = "ended"
  /\ UNCHANGED nonUart
  /\ UNCHANGED <<uSent, uGot>>
  /\ UNCHANGED <<uTxBuffer, uRxBuffer, uTxReady, uRxReady, uartLock, uIdx,
                 uRet, wData>>

UartMain ==
  \/ USendLock \/ USendTest \/ USendPush \/ USendReady \/ USendUnlock
  \/ UMainSleep \/ UReadLock \/ UReadBody \/ UReadUnlock \/ UExit

\* ---- UART_TransferWire ------------------------------------------------------
\* sleep_for(150) is over
WSleep ==
  /\ pcW = "sleep"
  /\ pcW' = "lock"
  /\ UNCHANGED nonUart
  /\ UNCHANGED <<uSent, uGot>>
  /\ UNCHANGED <<uTxBuffer, uRxBuffer, uTxReady, uRxReady, uartLock, pcUM,
                 uIdx, uRet, wData>>

\* lock_guard<mutex> lock(UART.uartLock);
WLock ==
  /\ pcW = "lock"
  /\ uartLock = "none"
  /\ uartLock' = "wire"
  /\ pcW' = "body"
  /\ UNCHANGED nonUart
  /\ UNCHANGED <<uSent, uGot>>
  /\ UNCHANGED <<uTxBuffer, uRxBuffer, uTxReady, uRxReady, pcUM, uIdx, uRet,
                 wData>>

\* a wire that copies the byte without removing it from the TX FIFO
WBodyKeeps ==
  /\ pcW = "body"
  /\ IF uTxBuffer # <<>>
       THEN /\ wData' = Head(uTxBuffer)
            /\ uTxBuffer' = uTxBuffer
            /\ uRxBuffer' = Append(uRxBuffer, Head(uTxBuffer))
            /\ uRxReady' = TRUE
       ELSE UNCHANGED <<wData, uTxBuffer, uRxBuffer, uRxReady>>
  /\ pcW' = "unlock"
  /\ UNCHANGED nonUart
  /\ UNCHANGED <<uSent, uGot>>
  /\ UNCHANGED <<uTxReady, uartLock, pcUM, uIdx, uRet>>

\* if (!UART.txBuffer.empty()) { data = front(); pop(); rxBuffer.push(data);
\*   UART.rxReady = true; }
WBody ==
  /\ pcW = "body"
  /\ IF uTxBuffer # <<>>
       THEN /\ wData' = Head(uTxBuffer)
            /\ uTxBuffer' = Tail(uTxBuffer)
            /\ uRxBuffer' = Append(uRxBuffer, Head(uTxBuffer))
            /\ uRxReady' = TRUE
       ELSE UNCHANGED <<wData, uTxBuffer, uRxBuffer, uRxReady>>
  /\ pcW' = "unlock"
  /\ UNCHANGED nonUart
  /\ UNCHANGED <<uSent, uGot>>
  /\ UNCHANGED <<uTxReady, uartLock, pcUM, uIdx, uRet>>

\* end of the loop body: the lock_guard is released
WUnlock ==
  /\ pcW = "unlock"
  /\ uartLock' = "none"
  /\ pcW' = "sleep"
  /\ UNCHANGED nonUart
  /\ UNCHANGED <<uSent, uGot>>
  /\ UNCHANGED <<uTxBuffer, uRxBuffer, uTxReady, uRxReady, pcUM, uIdx, uRet,
                 wData>>

UART_TransferWire == WSleep \/ WLock \/ WBody \/ WUnlock

UartNext == UartMain \/ UART_TransferWire

(***************************************************************************)
(* 08_interrupts_isrs.cpp and 09_timers_rtos.cpp                           *)
(*                                                                         *)
(* Both programs have a loop that polls a flag every 200 ms and a thread   *)
(* that calls the timer ISR after each of three sleeps.  Which of the two  *)
(* runs is chosen at the start (isrProg).  Time is counted in units of     *)
(* 100 ms (now): a thread that sleeps d units is ready again d units       *)
(* later, what a thread does between two sleeps takes no time, and         *)
(* threads that are ready at the same time run in any order.               *)
(* 09's uartMutex is taken by uartTask alone and is not modelled.          *)
(***************************************************************************)
IsrRounds == IF isrProg = "08" THEN Isr08Rounds ELSE Isr09Rounds

IsrLoopSleep == IF isrProg = "08" THEN Isr08LoopSleep ELSE Isr09LoopSleep

IsrTimerEvents == IF isrProg = "08" THEN Isr08TimerEvents ELSE Isr09TimerEvents

IsrTimerSleep == IF isrProg = "08" THEN Isr08TimerSleep ELSE Isr09TimerSleep

\* The state main() has started the threads in; with run = FALSE neither
\* program is running.
IsrStart(run) ==
  /\ isrProg \in (IF run THEN {"08", "09"} ELSE {"off"})
  /\ now = 0
  /\ timerFlag = FALSE /\ buttonPressed = FALSE
  /\ pcLoop = (IF run THEN "test" ELSE "off")
  /\ loopCounter = 0 /\ loopWake = 0
  /\ timerI = 0
  /\ timerWake = (IF run THEN IsrTimerSleep ELSE 0)
  /\ pcBtn = (IF isrProg = "08" THEN "sleep" ELSE "off")
  /\ ledI = 0 /\ ledWake = 0
  /\ utI = 0 /\ utWake = 0
  /\ pcIsrMain = (IF run THEN "join" ELSE "off")
  /\ isrRaised = 0 /\ isrHandled = 0

\* ---- mainLoop (08) / mainRTOSLoop (09) --------------------------------------
\* while (loopCounter < 10)
LoopTest ==
  /\ pcLoop = "test"
  /\ pcLoop' = (IF loopCounter >= IsrRounds THEN "done"
                ELSE IF isrProg = "08" THEN "button" ELSE "timer")
  /\ UNCHANGED nonIsr
  /\ UNCHANGED <<isrProg, now, timerFlag, buttonPressed, loopCounter,
                 loopWake, timerI, timerWake, pcBtn, ledI, ledWake, utI,
                 utWake, pcIsrMain, isrRaised, isrHandled>>

\* 08: if (buttonPressed)
LoopButton ==
  /\ pcLoop = "button"
  /\ pcLoop' = (IF buttonPressed THEN "button_clear" ELSE "timer")
  /\ UNCHANGED nonIsr
  /\ UNCHANGED <<isrProg, now, timerFlag, buttonPressed, loopCounter,
                 loopWake, timerI, timerWake, pcBtn, ledI, ledWake, utI,
                 utWake, pcIsrMain, isrRaised, isrHandled>>

\* 08: "[MAIN LOOP] Handling Button Press";  buttonPressed = false;
LoopButtonClear ==
  /\ pcLoop = "button_clear"
  /\ buttonPressed' = FALSE
  /\ pcLoop' = "timer"
  /\ UNCHANGED nonIsr
  /\ UNCHANGED <<isrProg, now, timerFlag, loopCounter,
                 loopWake, timerI, timerWake, pcBtn, ledI, ledWake, utI,
                 utWake, pcIsrMain, isrRaised, isrHandled>>

\* if (timerElapsed) / if (timerFlag)
LoopTimer ==
  /\ pcLoop = "timer"
  /\ pcLoop' = (IF timerFlag THEN "timer_clear" ELSE "sleep")
  /\ UNCHANGED nonIsr
  /\ UNCHANGED <<isrProg, now, timerFlag, buttonPressed, loopCounter,
                 loopWake, timerI, timerWake, pcBtn, ledI, ledWake, utI,
                 utWake, pcIsrMain, isrRaised, isrHandled>>

\* "[MAIN LOOP] Handling Timer Event";  the flag = false;
LoopTimerClear ==
  /\ pcLoop = "timer_clear"
  /\ timerFlag' = FALSE
  /\ isrHandled' = isrHandled + 1
  /\ pcLoop' = "sleep"
  /\ UNCHANGED nonIsr
  /\ UNCHANGED <<isrProg, now, buttonPressed, loopCounter,
                 loopWake, timerI, timerWake, pcBtn, ledI, ledWake, utI,
                 utWake, pcIsrMain, isrRaised>>

\* this_thread::sleep_for(chrono::milliseconds(200));
LoopSleep ==
  /\ pcLoop = "sleep"
  /\ loopWake' = now + IsrLoopSleep
  /\ pcLoop' = "sleeping"
  /\ UNCHANGED nonIsr
  /\ UNCHANGED <<isrProg, now, timerFlag, buttonPressed, loopCounter,
                 timerI, timerWake, pcBtn, ledI, ledWake, utI,
                 utWake, pcIsrMain, isrRaised, isrHandled>>

\* the sleep is over: loopCounter++;
LoopWake ==
  /\ pcLoop = "sleeping"
  /\ now >= loopWake
  /\ loopCounter' = loopCounter + 1
  /\ pcLoop' = "test"
  /\ UNCHANGED nonIsr
  /\ UNCHANGED <<isrProg, now, timerFlag, buttonPressed,
                 loopWake, timerI, timerWake, pcBtn, ledI, ledWake, utI,
                 utWake, pcIsrMain, isrRaised, isrHandled>>

IsrMainLoop ==
  \/ LoopTest \/ LoopButton \/ LoopButtonClear \/ LoopTimer \/ LoopTimerClear
  \/ LoopSleep \/ LoopWake

\* ---- the threads that stand for the hardware --------------------------------
\* simulateTimerInterrupt (08) / simulateHardwareTimer (09): the sleep of
\* one round is over, timerISR() sets the flag; i++ and the next sleep
TimerFire ==
  /\ isrProg \in {"08", "09"}
  /\ pcIsrMain # "exited"
  /\ timerI < IsrTimerEvents
  /\ now >= timerWake
  /\ timerFlag' = TRUE
  /\ isrRaised' = isrRaised + 1
  /\ timerI' = timerI + 1
  /\ timerWake' = now + IsrTimerSleep
  /\ UNCHANGED nonIsr
  /\ UNCHANGED <<isrProg, now, buttonPressed, pcLoop, loopCounter,
                 loopWake, pcBtn, ledI, ledWake, utI, utWake, pcIsrMain,
                 isrHandled>>

\* 08, simulateButtonPress: sleep_for(500) is over, buttonISR() sets its flag
ButtonFire ==
  /\ pcBtn = "sleep"
  /\ now >= Isr08ButtonDelay
  /\ buttonPressed' = TRUE
  /\ pcBtn' = "done"
  /\ UNCHANGED nonIsr
  /\ UNCHANGED <<isrProg, now, timerFlag, pcLoop, loopCounter,
                 loopWake, timerI, timerWake, ledI, ledWake, utI, utWake,
                 pcIsrMain, isrRaised, isrHandled>>

\* 09, ledTask: one round "[LED TASK] Toggling LED...", sleep_for(500)
LedTaskRound ==
  /\ isrProg = "09"
  /\ ledI < Isr09LedRounds
  /\ now >= ledWake
  /\ ledI' = ledI + 1
  /\ ledWake' = now + Isr09LedSleep
  /\ UNCHANGED nonIsr
  /\ UNCHANGED <<isrProg, now, timerFlag, buttonPressed, pcLoop, loopCounter,
                 loopWake, timerI, timerWake, pcBtn, utI, utWake,
                 pcIsrMain, isrRaised, isrHandled>>

\* 09, uartTask: one round "[UART TASK] Sending data...", sleep_for(700)
UartTaskRound ==
  /\ isrProg = "09"
  /\ utI < Isr09UartRounds
  /\ now >= utWake
  /\ utI' = utI + 1
  /\ utWake' = now + Isr09UartSleep
  /\ UNCHANGED nonIsr
  /\ UNCHANGED <<isrProg, now, timerFlag, buttonPressed, pcLoop, loopCounter,
                 loopWake, timerI, timerWake, pcBtn, ledI, ledWake,
                 pcIsrMain, isrRaised, isrHandled>>

\* the timer thread has returned: its last sleep precedes its last ISR call
IsrTimerDone == timerI >= IsrTimerEvents

\* 09: ledTask / uartTask have returned: the last round's sleep is over
LedTaskDone == ledI >= Isr09LedRounds /\ now >= ledWake

UartTaskDone == utI >= Isr09UartRounds /\ now >= utWake

\* ---- main -------------------------------------------------------------------
\* 08: button_thread.join(); timer_thread.join(); main_thread.detach();
\* return 0;  which ends the process and mainLoop with it
IsrMain08 ==
  /\ isrProg = "08"
  /\ pcIsrMain = "join"
  /\ pcBtn = "done"
  /\ IsrTimerDone
  /\ pcIsrMain' = "exited"
  /\ pcLoop' = (IF pcLoop = "done" THEN "done" ELSE "killed")
  /\ UNCHANGED nonIsr
  /\ UNCHANGED <<isrProg, now, timerFlag, buttonPressed, loopCounter,
                 loopWake, timerI, timerWake, pcBtn, ledI, ledWake, utI,
                 utWake, isrRaised, isrHandled>>

\* 09: the four joins; return 0;
IsrMain09 ==
  /\ isrProg = "09"
  /\ pcIsrMain = "join"
  /\ LedTaskDone /\ UartTaskDone /\ IsrTimerDone
  /\ pcLoop = "done"
  /\ pcIsrMain' = "exited"
  /\ UNCHANGED nonIsr
  /\ UNCHANGED <<isrProg, now, timerFlag, buttonPressed, pcLoop, loopCounter,
                 loopWake, timerI, timerWake, pcBtn, ledI, ledWake, utI,
                 utWake, isrRaised, isrHandled>>

\* some thread is ready to run at the present time
IsrRunnable ==
  \/ pcLoop \in {"test", "button", "button_clear", "timer", "timer_clear",
                 "sleep"}
  \/ pcLoop = "sleeping" /\ now >= loopWake
  \/ timerI < IsrTimerEvents /\ now >= timerWake
  \/ pcBtn = "sleep" /\ now >= Isr08ButtonDelay
  \/ isrProg = "09" /\ ledI < Isr09LedRounds /\ now >= ledWake
  \/ isrProg = "09" /\ utI < Isr09UartRounds /\ now >= utWake
  \/ isrProg = "08" /\ pcBtn = "done" /\ IsrTimerDone
  \/ isrProg = "09" /\ LedTaskDone /\ UartTaskDone /\ IsrTimerDone
       /\ pcLoop = "done"

\* 100 ms pass while every thread sleeps or waits in a join
IsrTick ==
  /\ pcIsrMain = "join"
  /\ ~IsrRunnable
  /\ now' = now + 1
  /\ UNCHANGED nonIsr
  /\ UNCHANGED <<isrProg, timerFlag, buttonPressed, pcLoop, loopCounter,
                 loopWake, timerI, timerWake, pcBtn, ledI, ledWake, utI,
                 utWake, pcIsrMain, isrRaised, isrHandled>>

IsrNext ==
  \/ IsrMainLoop \/ TimerFire \/ ButtonFire \/ LedTaskRound \/ UartTaskRound
  \/ IsrMain08 \/ IsrMain09 \/ IsrTick

(***************************************************************************)
(* 04_functions_and_modular_design.cpp                                     *)
(*                                                                         *)
(* After initLED the LED functions are called with arguments drawn from    *)
(* LedNums and {true, false}, any number of times.  LED_REG is an unsigned *)
(* char: the int results of |, & and ^ are cut to 8 bits on assignment.    *)
(***************************************************************************)
\* The state main() starts in; with run = FALSE the program is not running.
LedStart(run) ==
  /\ LED_REG = 0
  /\ pcLed = (IF run THEN "init" ELSE "off")
  /\ led_num = 0 /\ ledState = FALSE
  /\ ledBefore = 0

\* if (led_num < 0 || led_num > 7)  is false
LedValid(n) == ~(n < 0 \/ n > 7)

\* LED_REG |= (1 << led_num);
LedOr(reg, n) == (IF Bit(reg, n) = 0 THEN reg + 2 ^ n ELSE reg) % 256

\* a clear that wipes the whole register
LedClearAll(reg, n) == 0

\* LED_REG &= ~(1 << led_num);
LedClear(reg, n) == (IF Bit(reg, n) = 1 THEN reg - 2 ^ n ELSE reg) % 256

\* LED_REG ^= (1 << led_num);
LedXor(reg, n) == (IF Bit(reg, n) = 1 THEN reg - 2 ^ n ELSE reg + 2 ^ n) % 256

\* initLED(): LED_REG = 0x00;
InitLED ==
  /\ pcLed = "init"
  /\ LED_REG' = 0
  /\ pcLed' = "main"
  /\ UNCHANGED nonLed
  /\ UNCHANGED <<led_num, ledState, ledBefore>>

\* main calls setLED(led_num, state)
CallSetLED ==
  /\ pcLed \in {"main", "returned"}
  /\ \E n \in LedNums, st \in BOOLEAN :
       /\ led_num' = n
       /\ ledState' = st
  /\ ledBefore' = LED_REG
  /\ pcLed' = "set_check"
  /\ UNCHANGED nonLed
  /\ UNCHANGED LED_REG

\* main calls toggleLED(led_num)
CallToggleLED ==
  /\ pcLed \in {"main", "returned"}
  /\ \E n \in LedNums : led_num' = n
  /\ ledBefore' = LED_REG
  /\ pcLed' = "toggle_check"
  /\ UNCHANGED nonLed
  /\ UNCHANGED <<LED_REG, ledState>>

\* the range check of setLED / toggleLED: an invalid number returns at once
LedCheck ==
  /\ pcLed \in {"set_check", "toggle_check"}
  /\ pcLed' = (IF ~LedValid(led_num) THEN "returned"
               ELSE IF pcLed = "set_check" THEN "set_write"
               ELSE "toggle_write")
  /\ UNCHANGED nonLed
  /\ UNCHANGED <<LED_REG, led_num, ledState, ledBefore>>

\* setLED: if (state) LED_REG |= ...; else LED_REG &= ~...;  then return
SetLEDWrite ==
  /\ pcLed = "set_write"
  /\ LED_REG' = (IF ledState THEN LedOr(LED_REG, led_num)
                 ELSE LedClear(LED_REG, led_num))
  /\ pcLed' = "returned"
  /\ UNCHANGED nonLed
  /\ UNCHANGED <<led_num, ledState, ledBefore>>

\* toggleLED: LED_REG ^= (1 << led_num);  then return
ToggleLEDWrite ==
  /\ pcLed = "toggle_write"
  /\ LED_REG' = LedXor(LED_REG, led_num)
  /\ pcLed' = "returned"
  /\ UNCHANGED nonLed
  /\ UNCHANGED <<led_num, ledState, ledBefore>>

LedNext ==
  \/ InitLED \/ CallSetLED \/ CallToggleLED \/ LedCheck \/ SetLEDWrite
  \/ ToggleLEDWrite

(***************************************************************************)
(* 03_control_flow_and_loops.cpp, demo_debounce_button                     *)
(*                                                                         *)
(* The function samples simulated_button_pin while a detached thread       *)
(* writes 1, 0, 1 to it.  The delays are not timed: the writes fall        *)
(* anywhere between the steps of the sampling loop.                        *)
(***************************************************************************)
\* The state demo_debounce_button() is called in; with run = FALSE the
\* program is not running.
DebStart(run) ==
  /\ simulated_button_pin = 0
  /\ pcDeb = (IF run THEN "init" ELSE "off")
  /\ stable_count = 0 /\ prev = 0 /\ cur = 0
  /\ pcBounce = 0 - 1
  /\ lastSamples = <<>>
  /\ debounced = 0 - 1

\* the last STABLE_REQUIRED elements of s
LastOf(s) ==
  IF Len(s) <= STABLE_REQUIRED THEN s
  ELSE SubSeq(s, Len(s) - STABLE_REQUIRED + 1, Len(s))

\* int stable_count = 0;  int prev = read_button_pin();
DebInit ==
  /\ pcDeb = "init"
  /\ stable_count' = 0
  /\ prev' = simulated_button_pin
  /\ pcDeb' = "spawn"
  /\ UNCHANGED nonDeb
  /\ UNCHANGED <<simulated_button_pin, cur, pcBounce, lastSamples, debounced>>

\* thread([](){ ... }).detach();
DebSpawn ==
  /\ pcDeb = "spawn"
  /\ pcBounce' = 0
  /\ pcDeb' = "test"
  /\ UNCHANGED nonDeb
  /\ UNCHANGED <<simulated_button_pin, stable_count, prev, cur, lastSamples,
                 debounced>>

\* the background thread: delay_ms(10); simulated_button_pin = 1 / 0 / 1;
BounceWrite ==
  /\ pcBounce >= 0 /\ pcBounce < Len(BounceSeq)
  /\ simulated_button_pin' = BounceSeq[pcBounce + 1]
  /\ pcBounce' = pcBounce + 1
  /\ UNCHANGED nonDeb
  /\ UNCHANGED <<pcDeb, stable_count, prev, cur, lastSamples, debounced>>

\* while (stable_count < STABLE_REQUIRED)
DebLoopTest ==
  /\ pcDeb = "test"
  /\ pcDeb' = (IF stable_count < STABLE_REQUIRED THEN "sample" ELSE "report")
  /\ UNCHANGED nonDeb
  /\ UNCHANGED <<simulated_button_pin, stable_count, prev, cur, pcBounce,
                 lastSamples, debounced>>

\* int cur = read_button_pin();
DebSample ==
  /\ pcDeb = "sample"
  /\ cur' = simulated_button_pin
  /\ lastSamples' = LastOf(Append(lastSamples, simulated_button_pin))
  /\ pcDeb' = "compare"
  /\ UNCHANGED nonDeb
  /\ UNCHANGED <<simulated_button_pin, stable_count, prev, pcBounce,
                 debounced>>

\* a comparison that replaces prev without resetting stable_count
DebCompareNoReset ==
  /\ pcDeb = "compare"
  /\ IF cur = prev
       THEN stable_count' = stable_count + 1 /\ prev' = prev
       ELSE stable_count' = stable_count /\ prev' = cur
  /\ pcDeb' = "delay"
  /\ UNCHANGED nonDeb
  /\ UNCHANGED <<simulated_button_pin, cur, pcBounce, lastSamples, debounced>>

\* if (cur == prev) stable_count++;  else { stable_count = 0; prev = cur; }
DebCompare ==
  /\ pcDeb = "compare"
  /\ IF cur = prev
       THEN stable_count' = stable_count + 1 /\ prev' = prev
       ELSE stable_count' = 0 /\ prev' = cur
  /\ pcDeb' = "delay"
  /\ UNCHANGED nonDeb
  /\ UNCHANGED <<simulated_button_pin, cur, pcBounce, lastSamples, debounced>>

\* "Sample read: ...";  delay_ms(5);
DebDelay ==
  /\ pcDeb = "delay"
  /\ pcDeb' = "test"
  /\ UNCHANGED nonDeb
  /\ UNCHANGED <<simulated_button_pin, stable_count, prev, cur, pcBounce,
                 lastSamples, debounced>>

\* cout << "Debounced value: " << prev;  the function returns
DebReport ==
  /\ pcDeb = "report"
  /\ debounced' = prev
  /\ pcDeb' = "done"
  /\ UNCHANGED nonDeb
  /\ UNCHANGED <<simulated_button_pin, stable_count, prev, cur, pcBounce,
                 lastSamples>>

DebNext ==
  \/ DebInit \/ DebSpawn \/ BounceWrite \/ DebLoopTest \/ DebSample
  \/ DebCompare \/ DebDelay \/ DebReport

(***************************************************************************)
(* 17_bootloader_sim.cpp                                                   *)
(*                                                                         *)
(* main validates its firmware string, and loads and starts the main       *)
(* firmware if the validation succeeds.  Strings are sequences of          *)
(* character codes; the string of main is drawn from Firmwares.            *)
(***************************************************************************)
FwChars == {88 + k : k \in 0..FwSpan}

Firmwares ==
  {VALID_FW, CORRUPT_FW}
    \cup {SubSeq(VALID_FW, 1, n) : n \in 0..(Len(VALID_FW) - 1)}
    \cup {[VALID_FW EXCEPT ![k] = c] : k \in 1..Len(VALID_FW), c \in FwChars}
    \cup {Append(VALID_FW, c) : c \in FwChars}

\* The state main() starts in; with run = FALSE the program is not running.
BootStart(run) ==
  /\ firmware \in (IF run THEN Firmwares ELSE {<<>>})
  /\ pcBoot = (IF run THEN "validate" ELSE "off")
  /\ loadI = 0
  /\ bootLog = <<>>

\* a validation that looks at the length of the string only
validateByLength(fw) == Len(fw) = Len(VALID_FW)

\* validateFirmware: fw == "VALID_FW"
validateFirmware(fw) == fw = VALID_FW

\* if (validateFirmware(firmware))
BootValidate ==
  /\ pcBoot = "validate"
  /\ IF validateFirmware(firmware)
       THEN bootLog' = Append(bootLog, "validated") /\ pcBoot' = "load"
       ELSE bootLog' = Append(bootLog, "rejected") /\ pcBoot' = "stay"
  /\ UNCHANGED nonBoot
  /\ UNCHANGED <<firmware, loadI>>

\* loadFirmware(firmware): "Loading firmware: ...", int i = 0
BootLoadStart ==
  /\ pcBoot = "load"
  /\ loadI' = 0
  /\ bootLog' = Append(bootLog, "load")
  /\ pcBoot' = "load_loop"
  /\ UNCHANGED nonBoot
  /\ UNCHANGED firmware

\* for (...; i < 3; i++) "Initializing memory/peripherals...";  at the end
\* loadFirmware returns
BootLoadRound ==
  /\ pcBoot = "load_loop"
  /\ IF loadI < LoadRounds
       THEN loadI' = loadI + 1 /\ pcBoot' = pcBoot /\ bootLog' = bootLog
       ELSE /\ loadI' = loadI
            /\ pcBoot' = "jump"
            /\ bootLog' = Append(bootLog, "loaded")
  /\ UNCHANGED nonBoot
  /\ UNCHANGED firmware

\* "Jumping to main firmware...";  mainFirmware();
BootJump ==
  /\ pcBoot = "jump"
  /\ bootLog' = Append(bootLog, "main")
  /\ pcBoot' = "complete"
  /\ UNCHANGED nonBoot
  /\ UNCHANGED <<firmware, loadI>>

\* else: "Staying in bootloader. Awaiting recovery..."
BootStay ==
  /\ pcBoot = "stay"
  /\ pcBoot' = "complete"
  /\ UNCHANGED nonBoot
  /\ UNCHANGED <<firmware, loadI, bootLog>>

\* "=== Simulation Complete ===";  return 0;
BootComplete ==
  /\ pcBoot = "complete"
  /\ pcBoot' = "done"
  /\ UNCHANGED nonBoot
  /\ UNCHANGED <<firmware, loadI, bootLog>>

BootNext ==
  \/ BootValidate \/ BootLoadStart \/ BootLoadRound \/ BootJump \/ BootStay
  \/ BootComplete

(***************************************************************************)
(* The specifications, one per program.                                    *)
(***************************************************************************)
InitI2C ==
  /\ I2CStart(TRUE) /\ SPIStart(FALSE) /\ PipeStart(FALSE)
  /\ ValStart(FALSE) /\ UartStart(FALSE) /\ IsrStart(FALSE) /\ LedStart(FALSE)
  /\ DebStart(FALSE) /\ BootStart(FALSE)

SpecI2C == InitI2C /\ [][I2CNext]_vars

InitSPI ==
  /\ I2CStart(FALSE) /\ SPIStart(TRUE) /\ PipeStart(FALSE)
  /\ ValStart(FALSE) /\ UartStart(FALSE) /\ IsrStart(FALSE) /\ LedStart(FALSE)
  /\ DebStart(FALSE) /\ BootStart(FALSE)

SpecSPI == InitSPI /\ [][SPINext]_vars

\* the two threads of 11_spi_realistic.cpp are both scheduled: neither stays
\* able to take a step for ever without taking it
FairSpecSPI ==
  InitSPI /\ [][SPINext]_vars /\ WF_vars(SPISlave) /\ WF_vars(SPIMaster)

InitPipe ==
  /\ I2CStart(FALSE) /\ SPIStart(FALSE) /\ PipeStart(TRUE)
  /\ ValStart(FALSE) /\ UartStart(FALSE) /\ IsrStart(FALSE) /\ LedStart(FALSE)
  /\ DebStart(FALSE) /\ BootStart(FALSE)

SpecPipe == InitPipe /\ [][PipeNext]_vars

\* the tasks of 14_rtos_advanced.cpp are all scheduled
FairSpecPipe ==
  /\ InitPipe /\ [][PipeNext]_vars
  /\ WF_vars(task_sensor_read)
  /\ WF_vars(task_data_process)
  /\ WF_vars(task_uart_send)

InitVal ==
  /\ I2CStart(FALSE) /\ SPIStart(FALSE) /\ PipeStart(FALSE)
  /\ ValStart(TRUE) /\ UartStart(FALSE) /\ IsrStart(FALSE) /\ LedStart(FALSE)
  /\ DebStart(FALSE) /\ BootStart(FALSE)

SpecVal == InitVal /\ [][ValNext]_vars

InitUart ==
  /\ I2CStart(FALSE) /\ SPIStart(FALSE) /\ PipeStart(FALSE)
  /\ ValStart(FALSE) /\ UartStart(TRUE) /\ IsrStart(FALSE) /\ LedStart(FALSE)
  /\ DebStart(FALSE) /\ BootStart(FALSE)

SpecUart == InitUart /\ [][UartNext]_vars

InitIsr ==
  /\ I2CStart(FALSE) /\ SPIStart(FALSE) /\ PipeStart(FALSE)
  /\ ValStart(FALSE) /\ UartStart(FALSE) /\ IsrStart(TRUE) /\ LedStart(FALSE)
  /\ DebStart(FALSE) /\ BootStart(FALSE)

SpecIsr == InitIsr /\ [][IsrNext]_vars

InitLed ==
  /\ I2CStart(FALSE) /\ SPIStart(FALSE) /\ PipeStart(FALSE)
  /\ ValStart(FALSE) /\ UartStart(FALSE) /\ IsrStart(FALSE) /\ LedStart(TRUE)
  /\ DebStart(FALSE) /\ BootStart(FALSE)

SpecLed == InitLed /\ [][LedNext]_vars

InitDeb ==
  /\ I2CStart(FALSE) /\ SPIStart(FALSE) /\ PipeStart(FALSE)
  /\ ValStart(FALSE) /\ UartStart(FALSE) /\ IsrStart(FALSE) /\ LedStart(FALSE)
  /\ DebStart(TRUE) /\ BootStart(FALSE)

SpecDeb == InitDeb /\ [][DebNext]_vars

InitBoot ==
  /\ I2CStart(FALSE) /\ SPIStart(FALSE) /\ PipeStart(FALSE)
  /\ ValStart(FALSE) /\ UartStart(FALSE) /\ IsrStart(FALSE) /\ LedStart(FALSE)
  /\ DebStart(FALSE) /\ BootStart(TRUE)

SpecBoot == InitBoot /\ [][BootNext]_vars

(***************************************************************************)
(* Properties.                                                             *)
(***************************************************************************)
IsPrefix(a, b) == Len(a) <= Len(b) /\ \A k \in 1..Len(a) : a[k] = b[k]

\* the slave has left its data-receive loop
I2CDataPhaseOver ==
  \/ pcS \in {"ack2_lock", "ack2_sda", "wait_stop"}
  \/ pcS = "done" /\ addrReply = "ack"

\* the slave is in, or has been through, its data-receive loop
I2CDataPhaseEntered ==
  \/ pcS \in {"data_wait_high", "data_lock", "data_sample", "data_unlock",
              "data_wait_low"}
  \/ I2CDataPhaseOver

\* C1 (SpecI2C): whenever the master writes to an address other than the
\* slave's, the slave does not ACK the address phase, never enters the data
\* loop, and received_data stays 0.
C1_MismatchIsNacked ==
  address # sAddress =>
    /\ addrReply # "ack"
    /\ ~I2CDataPhaseEntered
    /\ received_data = 0

\* C2 (SpecI2C): whenever the master writes to the slave's own address, the
\* slave's answer to the address phase is never NACK.
C2_MatchIsAcked ==
  address = sAddress =>
    /\ addrReply # "nack"
    /\ pcS \notin {"nack_lock", "nack_sda", "nack_return"}

\* C3 (SpecI2C): with matching addresses, once the slave has finished the data
\* phase, received_data equals the byte the master sent.
C3_DataRoundTrip ==
  (address = sAddress /\ I2CDataPhaseOver) => received_data = data

\* C3: the slave has finished the data phase of a non-zero byte
C3_Witness ==
  /\ address = sAddress
  /\ pcS = "wait_stop"
  /\ data # 0
  /\ received_data = data

\* C4 (SpecSPI): when SPISlave has returned, the byte it reconstructed equals
\* the byte SPIMaster sent.
C4_SpiRoundTrip == pcSS = "done" => received_by_slave = data_out

\* C4: both have returned and the slave holds the program's byte
C4_Witness ==
  /\ pcSS = "done" /\ pcSM = "done"
  /\ data_out = SpiDataToSend
  /\ received_by_slave = SpiDataToSend

\* C5 (SpecSPI): whenever the master samples MISO, the slave has already put
\* the echo of the current bit there, and the byte the master has assembled
\* after its loop equals the byte it sent.
C5_SpiEcho ==
  /\ pcSM = "read_miso" => MISO = Bit(data_out, smi)
  /\ pcSM \in {"cs_high", "join", "done"} => received_byte = data_out

\* C5: the master has returned with the echo of the program's byte
C5_Witness ==
  /\ pcSM = "done"
  /\ data_out = SpiDataToSend
  /\ received_byte = SpiDataToSend

\* C6 (SpecPipe): what task_uart_send emits is the doubled values 2,4,6,8,10
\* in that order: always a prefix of it, and all of it when the program ends.
C6_SinkEmitsDoubled ==
  /\ IsPrefix(uartOut, <<2, 4, 6, 8, 10>>)
  /\ pcMain = "exited" => uartOut = <<2, 4, 6, 8, 10>>

\* C7 (SpecPipe): the producer is never blocked forever in
\* pipeline_slots.wait().  In the state excluded here it is: the producer is
\* blocked with count = 0, the queue is empty and both other tasks poll it, so
\* nothing is pushed, nothing is dequeued and signal() is never called again.
C7_ProducerNeverStuck ==
  ~ /\ pcSen = "blocked"
    /\ count = 0
    /\ QueueEmpty
    /\ pcProc = "check"
    /\ pcUart = "check"

\* C8 (SpecPipe): no value leaves the queue without a stage having obtained it.
C8_NoItemDropped == lost = {}

\* C9 (SpecPipe): the k-th value obtained from the queue, by whichever stage,
\* is the k-th value the producer pushed.
C9_FifoOrder == inOrder

\* C10 (SpecPipe): the Semaphore's count stays within [0, capacity]; completed
\* waits never exceed completed signals by more than the capacity, and
\* completed signals never exceed completed waits.
C10_CountWithinCapacity ==
  /\ count \in 0..SlotCapacity
  /\ waitsDone - signalsDone <= SlotCapacity
  /\ signalsDone <= waitsDone

\* C11 (SpecPipe): the shared queue never holds more than the gate's capacity
\* of items that were pushed and not yet popped.
C11_QueueWithinCapacity == Len(dataQueue) <= SlotCapacity

\* C11: the queue is full and the producer, with its third value, is held
\* back by the gate
C11_Witness ==
  /\ Len(dataQueue) = SlotCapacity
  /\ pcSen = "blocked"
  /\ sensor_value = SlotCapacity + 1

\* C12 (SpecPipe): every slot the producer acquired has been released again
\* once the producer has finished, the queue is empty and the two consuming
\* tasks are idle: the count is back at the capacity and as many signals as
\* waits have completed.
C12_SlotsReleased ==
  (/\ pcSen = "done"
   /\ QueueEmpty
   /\ pcProc \in {"check", "ended"}
   /\ pcUart \in {"check", "ended"})
  => /\ count = SlotCapacity
     /\ signalsDone = waitsDone

\* C13 (SpecPipe): no item of the queue is obtained by two front() calls,
\* whether of the two consuming tasks or of one of them.
C13_ObtainedOnce == ~takenTwice

\* thread t owns one of the program's mutexes
HoldsMutex(t) == mtx = t \/ sensor_mutex = t \/ uart_mutex = t

\* C14 (SpecPipe): a task that stands at a call on the shared queue owns a
\* mutex, and the two consuming tasks are never both between their front()
\* and the end of their pop().
C14_QueueAccessLocked ==
  /\ pcSen = "push" => HoldsMutex("sensor")
  /\ pcProc \in {"front", "pop"} => HoldsMutex("process")
  /\ pcUart \in {"front", "pop"} => HoldsMutex("uart")
  /\ ~(pcProc \in {"front", "pop"} /\ pcUart \in {"front", "pop"})

\* C15 (SpecSPI): a thread that stands at a write or a read of a bus line
\* (CS, SCLK, MOSI, MISO), the polls of CS and SCLK included, owns spiLock.
C15_BusAccessLocked ==
  /\ pcSM \in {"cs_low", "bit_mosi", "clk_high", "read_miso", "clk_low",
               "cs_high"} => spiLock = "master"
  /\ pcSS \in {"wait_cs", "wait_high", "wait_low", "sample", "echo"}
       => spiLock = "slave"

\* C16 (SpecI2C): a thread that is inside a sleep_for, the 1 ms sleeps of the
\* polling loops included, does not own busLock.
C16_NoSleepHoldingLock ==
  /\ pcM \in {"main_sleep", "start_sleep", "addr_sleep", "ack_sleep",
              "data_sleep"} => busLock # "master"
  /\ pcS \in {"wait_start", "wait_start_scl", "addr_wait_high",
              "addr_wait_low", "data_wait_high", "data_wait_low",
              "wait_stop"} => busLock # "slave"

\* C17 (SpecI2C): once the slave has asserted the final ACK it is never cut
\* off from the STOP condition.  In the states excluded here it is, for ever:
\* the slave polls for SDA high and SCL high while either the master waits
\* for busLock, which the slave owns until it returns, or the master has
\* issued its STOP before the slave pulled SDA low and has nothing left to do
\* but join the slave.
C17_StopObserved ==
  ~ /\ pcS = "wait_stop"
    /\ \/ pcM = "stop_lock" /\ busLock = "slave"
       \/ pcM = "join" /\ ~SDA

\* C18 (SpecI2C): the slave's sample for bit index si is taken while the bit
\* with that index is the one the master has last clocked out: the master has
\* ended that bit's pulse (it owns busLock during the pulse) and has not yet
\* put the next bit on SDA.  In particular no sample is taken before the
\* master has driven the first address bit.
C18_SampleAligned ==
  /\ pcS = "addr_sample" => \/ pcM = "addr_lock" /\ mi = si - 1
                            \/ pcM = "ack_sleep" /\ si = 1
  /\ pcS = "data_sample" => \/ pcM = "data_lock" /\ mi = si - 1
                            \/ pcM = "stop_lock" /\ si = 0

\* C19 (SpecI2C): once the slave has answered the address phase with NACK,
\* the master does not go on to put a data bit on SDA and clock it.
C19_NoDataAfterNack ==
  addrReply = "nack" => pcM \notin {"data_sda", "data_high"}

\* C20 (SpecI2C): when a transaction the slave answered with NACK has run to
\* its end (I2CSlave has returned, the master has left its STOP block), the
\* bus is idle as it was before the transaction: SDA high, SCL high, busLock
\* free.
C20_CleanBusAfterNack ==
  (addrReply = "nack" /\ pcS = "done" /\ pcM \in {"join", "done"})
    => (SDA /\ SCL /\ busLock = "none")

\* C20: a write to another address than the slave's was answered with NACK
\* and both threads have finished
C20_Witness ==
  /\ address # sAddress
  /\ addrReply = "nack"
  /\ pcS = "done"
  /\ pcM = "done"
  /\ SDA /\ SCL

\* C21 (FairSpecSPI): whenever the master is about to lower SCLK, the slave
\* has sampled the bit of that pulse and waits for the falling edge; the
\* slave returns only after its eighth sample; and the slave and the master
\* (main's join included) always finish.
C21_SpiNeverMissesClock ==
  /\ [](pcSM = "clk_low" => (pcSS = "wait_low" /\ ssi = smi))
  /\ [](pcSS = "done" => ssi = 0)
  /\ <>(pcSS = "done" /\ pcSM = "done")

\* C21: the master is about to lower SCLK after the last bit, which the slave
\* has sampled
C21_Witness ==
  /\ pcSM = "clk_low"
  /\ smi = 0
  /\ pcSS = "wait_low"
  /\ ssi = 0
  /\ received_by_slave = data_out

\* C22 (SpecPipe): no task owns two of the three mutexes (sensor_mutex,
\* uart_mutex, the Semaphore's mtx) at the same time.
C22_AtMostOneLock ==
  \A t \in {"sensor", "process", "uart"} :
    /\ ~(sensor_mutex = t /\ mtx = t)
    /\ ~(sensor_mutex = t /\ uart_mutex = t)
    /\ ~(uart_mutex = t /\ mtx = t)

\* C22: the producer is inside Semaphore::wait, owning mtx, after it has
\* owned and released sensor_mutex
C22_Witness ==
  /\ pcSen = "wait_test"
  /\ mtx = "sensor"
  /\ sensor_mutex = "none"
  /\ sensor_value >= 1

\* C23 (FairSpecPipe): a waiter is never left blocked on the condition
\* variable while count is positive, and when signal() is called while the
\* producer is blocked in wait(), the producer eventually completes its
\* decrement and goes on to push.  No signal() lets more than one wait()
\* complete: completed waits never exceed the capacity plus completed signals.
C23_NoLostWakeup ==
  /\ [](pcSen = "blocked" => count = 0)
  /\ [](waitsDone <= SlotCapacity + signalsDone)
  /\ ((pcSen = "blocked" /\ pcProc = "signal") ~> (pcSen = "push"))

\* C23: signal() is being executed while the producer is blocked in wait()
C23_Witness ==
  /\ pcSen = "blocked"
  /\ pcProc = "signal"
  /\ count = 0

\* C28 (SpecPipe): a consuming task that stands at its front() or its pop()
\* finds at least one item in the queue.
C28_NoDequeueOnEmpty ==
  /\ pcProc \in {"front", "pop"} => dataQueue # <<>>
  /\ pcUart \in {"front", "pop"} => dataQueue # <<>>

\* the master has issued the STOP condition (both lines of its STOP block
\* are written)
I2CStopIssued == pcM \in {"stop_unlock", "join", "done"}

C30_ProducerGated ==
  /\ IsPrefix(pushed, <<1, 2, 3, 4, 5>>)
  /\ Len(pushed) <= waitsDone
  /\ pcSen = "push" => waitsDone = Len(pushed) + 1

\* C30: all five values have been pushed, each after a wait()
C30_Witness ==
  /\ pushed = <<1, 2, 3, 4, 5>>
  /\ waitsDone = Readings
  /\ pcSen = "done"

\* C24: 13_firmware_validation.cpp: for every character c, a call
\* UART_SendChar(c) made with txReady true and txBuffer empty has, when it
\* returns, left txBuffer non-empty with front() equal to c and txReady
\* true again; neither assert of the test fails.
C24_SendCharPostcondition ==
  /\ pcV \in {"assert_nonempty", "assert_front", "passed", "done"} =>
       /\ vTxBuffer # <<>>
       /\ Head(vTxBuffer) = vData
       /\ vTxReady
  /\ pcV # "aborted"

\* the call has returned for a character other than the test's 'A'
C24_Witness ==
  /\ pcV = "passed"
  /\ vData = TestChar + 1
  /\ vTxBuffer = <<TestChar + 1>>
  /\ vTxReady

\* C25: 10_uart_simulation.cpp: UART_ReadChar returns the oldest character
\* of rxBuffer and removes it when rxBuffer is non-empty; when rxBuffer is
\* empty it returns 0 and leaves txBuffer, rxBuffer, txReady and rxReady
\* unchanged.
C25_ReadCharOldestOrZero ==
  [][(pcUM = "read_body" /\ pcUM' = "read_unlock") =>
       IF uRxBuffer # <<>>
         THEN /\ uRet' = Head(uRxBuffer)
              /\ uRxBuffer' = Tail(uRxBuffer)
         ELSE /\ uRet' = 0
              /\ UNCHANGED <<uTxBuffer, uRxBuffer, uTxReady, uRxReady>>]_vars

\* the first read has returned 'H' and left 'i', '!' in rxBuffer
C25_Witness ==
  /\ pcUM = "read_unlock"
  /\ uRet = UartMessage[1]
  /\ uRxBuffer = Tail(UartMessage)

\* a read of the empty rxBuffer has returned 0
C25_WitnessEmpty ==
  /\ pcUM = "read_unlock"
  /\ uRet = 0
  /\ uRxBuffer = <<>>
  /\ uTxBuffer # <<>>

\* C26: 08_interrupts_isrs.cpp and 09_timers_rtos.cpp: each time the timer
\* ISR sets its flag (timerElapsed in 08, timerFlag in 09) the main loop
\* subsequently handles it, so that no ISR event goes unhandled: once the
\* program has ended the flag is clear and every call of the ISR has been
\* followed by a handling of its own.
C26_EveryTimerEventHandled ==
  pcIsrMain = "exited" => (~timerFlag /\ isrHandled = isrRaised)

\* the same for 09_timers_rtos.cpp alone
C26_EveryTimerEventHandled09 ==
  (isrProg = "09" /\ pcIsrMain = "exited") => (~timerFlag /\ isrHandled = isrRaised)

\* C27: 04_functions_and_modular_design.cpp: for led_num outside 0..7
\* setLED and toggleLED leave LED_REG unchanged; for led_num inside 0..7
\* they change no bit of LED_REG other than bit led_num.
C27_OnlyBitLedNum ==
  pcLed = "returned" =>
    /\ ~LedValid(led_num) => LED_REG = ledBefore
    /\ LedValid(led_num) =>
         \A b \in (0..7) \ {led_num} : Bit(LED_REG, b) = Bit(ledBefore, b)

\* a call with a led_num of 10 has returned and has left the lit LEDs alone
C27_Witness ==
  /\ pcLed = "returned"
  /\ led_num = 10
  /\ ledBefore # 0
  /\ LED_REG = ledBefore

\* setLED(3, false) has returned and has cleared bit 3 of a register that
\* had other bits set
C27_WitnessInRange ==
  /\ pcLed = "returned"
  /\ led_num = 3
  /\ Bit(ledBefore, 3) = 1
  /\ ledBefore # 8
  /\ LED_REG = ledBefore - 8

\* C31: I2C address assembly: every address sample of I2CSlave is stored at
\* the bit position of its round, one of 7..1, and changes no other bit; in
\* every run that reaches the ACK/NACK decision all seven rounds are over
\* and bit 0 of received_address is 0, so that the decision compares the
\* configured 8-bit address with a value whose bit 0 is always clear.
C31_AddressInBits7to1 ==
  /\ [][(pcS = "addr_sample" /\ pcS' = "addr_unlock") =>
          /\ si \in 1..7
          /\ Bit(received_address', si) =
               (IF Bit(received_address, si) = 1 THEN 1 ELSE B2N(SDA))
          /\ \A b \in (0..7) \ {si} :
               Bit(received_address', b) = Bit(received_address, b)]_vars
  /\ [](pcS \in {"decide", "ack_lock", "nack_lock"} =>
          /\ si = 1
          /\ Bit(received_address, 0) = 0
          /\ received_address < 256)

\* the master has sent the odd address 0x51 and the slave, deciding, holds
\* 0x50
C31_Witness ==
  /\ pcS = "decide"
  /\ address = SlaveAddress + 1
  /\ received_address = SlaveAddress

\* C32: SPI framing: in every reachable state SCLK is high only while CS is
\* low (the master asserts CS before the first rising edge and releases it
\* only after the last falling edge), and CS is high again when SPIMaster
\* has returned.
C32_ClockInsideFrame ==
  /\ SCLK => ~CS
  /\ pcSM \in {"bit_lock", "bit_mosi", "clk_high", "bit_unlock", "high_sleep",
               "read_lock", "read_miso", "clk_low", "read_unlock",
               "low_sleep", "cs_high"} => ~CS
  /\ pcSM \in {"join", "done"} => (CS /\ ~SCLK)

\* the clock is high for the last bit of the frame
C32_Witness == SCLK /\ ~CS /\ pcSM = "high_sleep" /\ smi = 0

\* SPIMaster has returned after a whole frame
C32_WitnessReturned == pcSM = "done" /\ CS /\ ~SCLK /\ received_by_slave = data_out

\* C33: 10_uart_simulation.cpp: whenever uartLock is not held txReady is
\* true; hence every call of UART_SendChar(c) finds the transmitter idle at
\* its test, appends c to txBuffer, and no character passed to
\* UART_SendChar is discarded.
C33_TransmitterIdleOutsideLock ==
  /\ uartLock = "none" => uTxReady
  /\ pcUM = "send_test" => uTxReady
  /\ pcUM = "send_unlock" =>
       /\ uTxBuffer # <<>>
       /\ uTxBuffer[Len(uTxBuffer)] = uSent[Len(uSent)]

\* the three calls of main have returned
C33_Witness ==
  /\ pcUM = "sleep" /\ uartLock = "none"
  /\ uSent = UartMessage
  /\ uTxReady

\* C34: UART wire conservation and order: whenever no call or wire step is
\* under way, the characters already returned by UART_ReadChar (0 results
\* ignored), followed by the contents of rxBuffer, followed by the contents
\* of txBuffer, are the sequence of characters sent: nothing is lost,
\* duplicated or reordered.
C34_WireConservesOrder ==
  uartLock = "none" => uGot \o uRxBuffer \o uTxBuffer = uSent

\* one character read, one on the receive side, one still to be transferred
C34_Witness ==
  /\ uartLock = "none"
  /\ uGot = <<UartMessage[1]>>
  /\ uRxBuffer = <<UartMessage[2]>>
  /\ uTxBuffer = <<UartMessage[3]>>

\* C35: UART status flag: whenever uartLock is not held, rxReady is true
\* exactly when rxBuffer is non-empty.
C35_RxReadyIffNonEmpty ==
  uartLock = "none" => (uRxReady <=> uRxBuffer # <<>>)

\* a read has emptied rxBuffer and the flag is down again
C35_Witness ==
  /\ uartLock = "none"
  /\ uGot # <<>>
  /\ uRxBuffer = <<>>
  /\ ~uRxReady

\* C36: Debounce: demo_debounce_button leaves its sampling loop only when
\* the last STABLE_REQUIRED = 3 consecutive samples all equalled prev, and
\* the value it reports is that prev; a sample that differs from prev
\* resets stable_count to 0 and replaces prev, wherever the writes of the
\* bouncing-pin thread fall.
C36_DebounceStable ==
  /\ [](pcDeb \in {"report", "done"} =>
          /\ stable_count = STABLE_REQUIRED
          /\ Len(lastSamples) = STABLE_REQUIRED
          /\ \A k \in 1..STABLE_REQUIRED : lastSamples[k] = prev
          /\ pcDeb = "done" => debounced = prev)
  /\ [][(pcDeb = "compare" /\ pcDeb' = "delay" /\ cur # prev) =>
          (stable_count' = 0 /\ prev' = cur)]_vars

\* the loop has been left on three samples of 0 taken after a bounce, while
\* the pin is at 1 again
C36_Witness ==
  /\ pcDeb = "done"
  /\ debounced = 0
  /\ simulated_button_pin = 1
  /\ pcBounce = Len(BounceSeq)

\* C37: Bootloader ordering: the main firmware is executed only after
\* validateFirmware has returned true and loadFirmware has completed, in
\* that order; for every firmware string other than "VALID_FW" validation
\* fails and neither loadFirmware nor mainFirmware is ever executed.
C37_BootOrder ==
  /\ \/ IsPrefix(bootLog, <<"validated", "load", "loaded", "main">>)
     \/ bootLog = <<"rejected">>
  /\ firmware # VALID_FW => bootLog \in {<<>>, <<"rejected">>}
  /\ (firmware # VALID_FW /\ pcBoot \in {"stay", "complete", "done"}) =>
       bootLog = <<"rejected">>
  /\ (firmware = VALID_FW /\ pcBoot \in {"complete", "done"}) =>
       bootLog = <<"validated", "load", "loaded", "main">>

\* main has ended without loading "VALID_FW" followed by one more character
C37_Witness ==
  /\ pcBoot = "done"
  /\ firmware = Append(VALID_FW, 88)
  /\ bootLog = <<"rejected">>

\* main has ended after starting the main firmware
C37_WitnessValid ==
  /\ pcBoot = "done"
  /\ firmware = VALID_FW
  /\ bootLog = <<"validated", "load", "loaded", "main">>

=============================================================================
